---- MODULE Spec2Model ----
(***************************************************************************)
(* A model of the YouTube transcript pipeline: URL/ID extraction, the      *)
(* sliding-window rate limiter, the TTL+LRU transcript cache, the          *)
(* transcript extraction orchestrator and the transcript agent with the    *)
(* chat route that consumes its events.                                    *)
(*                                                                         *)
(* Strings that the code inspects with regular expressions are sequences   *)
(* of one-character strings. Time is Date.now() in milliseconds.           *)
(***************************************************************************)
EXTENDS Integers, Sequences, FiniteSets, Bags, TLC

(***************************************************************************)
(* Characters and the regular expressions of transcriptExtractor.ts        *)
(***************************************************************************)

\* the {11} of the video-id capture group
VideoIdLen == 11

UpperToLower ==
  [c \in {"A","B","C","D","E","F","G","H","I","J","K","L","M","N","O","P","Q",
          "R","S","T","U","V","W","X","Y","Z"} |->
     CASE c = "A" -> "a" [] c = "B" -> "b" [] c = "C" -> "c" [] c = "D" -> "d"
       [] c = "E" -> "e" [] c = "F" -> "f" [] c = "G" -> "g" [] c = "H" -> "h"
       [] c = "I" -> "i" [] c = "J" -> "j" [] c = "K" -> "k" [] c = "L" -> "l"
       [] c = "M" -> "m" [] c = "N" -> "n" [] c = "O" -> "o" [] c = "P" -> "p"
       [] c = "Q" -> "q" [] c = "R" -> "r" [] c = "S" -> "s" [] c = "T" -> "t"
       [] c = "U" -> "u" [] c = "V" -> "v" [] c = "W" -> "w" [] c = "X" -> "x"
       [] c = "Y" -> "y" [] c = "Z" -> "z"]

\* canonical form of a character under the regex flag i
Fold(c, ci) == IF ci /\ c \in DOMAIN UpperToLower THEN UpperToLower[c] ELSE c

\* \s
IsSpace(c) == c \in {" ", "\n", "\t", "\r"}

\* the class [^"&?\/\s] of the capture group
IsIdChar(c) == c \notin {"\"", "&", "?", "/"} /\ ~IsSpace(c)

\* the regex dot: any character but a line terminator
IsDot(c) == c \notin {"\n", "\r"}

\* the literal lit stands in s at index i
LitAt(s, i, lit, ci) ==
  /\ i >= 1
  /\ i + Len(lit) - 1 <= Len(s)
  /\ \A k \in 1..Len(lit) : Fold(s[i + k - 1], ci) = lit[k]

\* ([^"&?\/\s]{11}) stands in s at index g
IdAt(s, g) ==
  /\ g >= 1
  /\ g + VideoIdLen - 1 <= Len(s)
  /\ \A k \in 0..(VideoIdLen - 1) : IsIdChar(s[g + k])

SetMax(S) == CHOOSE x \in S : \A y \in S : y <= x
SetMin(S) == CHOOSE x \in S : \A y \in S : x <= y

LitYoutubeCom == <<"y","o","u","t","u","b","e",".","c","o","m","/">>
LitYoutuBe    == <<"y","o","u","t","u",".","b","e","/">>
LitHttp       == <<"h","t","t","p",":","/","/">>
LitHttps      == <<"h","t","t","p","s",":","/","/">>
LitWww        == <<"w","w","w",".">>
LitEmbedSlash == <<"e","m","b","e","d","/">>
LitESlash     == <<"e","/">>
LitVSlash     == <<"v","/">>
LitVEq        == <<"v","=">>

\* [^\/]+\/.+\/ from index p, then the capture: the indices where the capture
\* may start. [^\/]+ runs to the first slash; .+ is greedy, so the regex
\* engine prefers the largest.
AltPathStarts(s, p) ==
  LET slashes == {j \in p..Len(s) : s[j] = "/"}
  IN  IF slashes = {} THEN {}
      ELSE LET j == SetMin(slashes)
           IN  IF j = p THEN {}
               ELSE {k + 1 : k \in {k \in (j + 2)..Len(s) :
                        /\ s[k] = "/"
                        /\ \A m \in (j + 1)..(k - 1) : IsDot(s[m])
                        /\ IdAt(s, k + 1)}}

\* (?:v|e(?:mbed)?)\/ from index p, then the capture
AltShortStarts(s, p, ci) ==
  {g \in {p + 2, p + 6} :
     /\ \/ g = p + 2 /\ (LitAt(s, p, LitVSlash, ci) \/ LitAt(s, p, LitESlash, ci))
        \/ g = p + 6 /\ LitAt(s, p, LitEmbedSlash, ci)
     /\ IdAt(s, g)}

\* .*[?&]v= from index p, then the capture; .* is greedy
AltQueryStarts(s, p, ci) ==
  {q + 3 : q \in {q \in p..Len(s) :
     /\ s[q] \in {"?", "&"}
     /\ LitAt(s, q + 1, LitVEq, ci)
     /\ \A m \in p..(q - 1) : IsDot(s[m])
     /\ IdAt(s, q + 3)}}

\* The index where the capture group starts when the host part of the pattern
\* is matched at index h, or 0 when it does not match there. Alternatives in
\* the order the regex engine tries them.
CaptureFromHost(s, h, ci) ==
  IF LitAt(s, h, LitYoutubeCom, ci)
  THEN LET p == h + Len(LitYoutubeCom)
       IN  IF AltPathStarts(s, p) # {} THEN SetMax(AltPathStarts(s, p))
           ELSE IF AltShortStarts(s, p, ci) # {} THEN SetMax(AltShortStarts(s, p, ci))
           ELSE IF AltQueryStarts(s, p, ci) # {} THEN SetMax(AltQueryStarts(s, p, ci))
           ELSE 0
  ELSE IF LitAt(s, h, LitYoutuBe, ci)
  THEN (IF IdAt(s, h + Len(LitYoutuBe)) THEN h + Len(LitYoutuBe) ELSE 0)
  ELSE 0

Slice(s, a, b) == [k \in 1..(b - a + 1) |-> s[a + k - 1]]

NoId == <<>>

\* a faulty extractYouTubeVideoId: the second pattern, for the bare id, is
\* missing
extractYouTubeVideoIdFromUrl(url) ==
  LET starts == {i \in 1..Len(url) : CaptureFromHost(url, i, FALSE) # 0}
  IN  IF starts # {}
      THEN LET g == CaptureFromHost(url, SetMin(starts), FALSE)
           IN  Slice(url, g, g + VideoIdLen - 1)
      ELSE NoId

\* extractYouTubeVideoId: the capture of the leftmost match of the first
\* pattern, else the whole string if it is a bare id, else null (NoId)
extractYouTubeVideoId(url) ==
  LET starts == {i \in 1..Len(url) : CaptureFromHost(url, i, FALSE) # 0}
  IN  IF starts # {}
      THEN LET g == CaptureFromHost(url, SetMin(starts), FALSE)
           IN  Slice(url, g, g + VideoIdLen - 1)
      ELSE IF Len(url) = VideoIdLen /\ IdAt(url, 1) THEN url
      ELSE NoId

\* (?:https?:\/\/)?(?:www\.)? from index i: the indices where the host part
\* may then start
HostStarts(s, i) ==
  LET afterScheme == {i} \cup (IF LitAt(s, i, LitHttps, TRUE) THEN {i + Len(LitHttps)} ELSE {})
                         \cup (IF LitAt(s, i, LitHttp, TRUE) THEN {i + Len(LitHttp)} ELSE {})
  IN  afterScheme \cup {a + Len(LitWww) : a \in {a \in afterScheme : LitAt(s, a, LitWww, TRUE)}}

\* the end index of the match of urlPattern that starts at index i, or 0
MatchEndAt(s, i) ==
  LET ends == {CaptureFromHost(s, h, TRUE) + VideoIdLen - 1 :
                 h \in {h \in HostStarts(s, i) : CaptureFromHost(s, h, TRUE) # 0}}
  IN  IF ends = {} THEN 0 ELSE SetMax(ends)

\* text.match(urlPattern) with the g flag: the successive leftmost matches
RECURSIVE MatchAll(_, _)
MatchAll(s, from) ==
  LET starts == {i \in from..Len(s) : MatchEndAt(s, i) # 0}
  IN  IF starts = {} THEN <<>>
      ELSE LET i == SetMin(starts)
               e == MatchEndAt(s, i)
           IN  <<Slice(s, i, e)>> \o MatchAll(s, e + 1)

\* [...new Set(matches)]: duplicates dropped, first-seen order kept
RECURSIVE Dedup(_)
Dedup(q) ==
  IF q = <<>> THEN <<>>
  ELSE LET front == Dedup(SubSeq(q, 1, Len(q) - 1))
           last  == q[Len(q)]
       IN  IF \E k \in 1..Len(front) : front[k] = last THEN front
           ELSE Append(front, last)

detectYouTubeUrls(text) == Dedup(MatchAll(text, 1))


(***************************************************************************)
(* Time                                                                    *)
(***************************************************************************)

HourMs == 60 * 60 * 1000

\* the clock advances in steps of TickMs, at most up to MaxTicks steps
TickMs == 25 * HourMs
MaxTicks == 1

(***************************************************************************)
(* RateLimiter (rateLimiter.ts)                                            *)
(***************************************************************************)

\* new RateLimiter({maxRequests: 100, windowMs: 60 * 60 * 1000})
TranscriptMaxRequests == 100
TranscriptWindowMs == 60 * 60 * 1000

\* new RateLimiter({maxRequests: 1000, windowMs: 24 * 60 * 60 * 1000})
VideoInfoMaxRequests == 1000
\* a faulty configuration: a window of half an hour
VideoInfoWindowShort == 30 * 60 * 1000
VideoInfoWindowMs == 24 * 60 * 60 * 1000

\* a faulty cleanup: a timestamp exactly windowMs old is kept
cleanupInclusive(requests, windowMs, t) ==
  SelectSeq(requests, LAMBDA ts : ts >= t - windowMs)

\* RateLimiter.cleanup: keep the timestamps newer than now - windowMs
cleanup(requests, windowMs, t) ==
  SelectSeq(requests, LAMBDA ts : ts > t - windowMs)

\* RateLimiter.canMakeRequest, on the window left by cleanup
canMakeRequest(requests, maxRequests, windowMs, t) ==
  Len(cleanup(requests, windowMs, t)) < maxRequests

\* RateLimiter.recordRequest: the window after the call
recordRequest(requests, windowMs, t) ==
  Append(cleanup(requests, windowMs, t), t)

\* RateLimiter.getWaitTime
getWaitTime(requests, maxRequests, windowMs, t) ==
  LET live == cleanup(requests, windowMs, t)
  IN  IF Len(live) < maxRequests THEN 0
      ELSE LET waitTime == (live[1] + windowMs) - t
           IN  IF waitTime > 0 THEN waitTime ELSE 0

(***************************************************************************)
(* Results and the TranscriptCache (transcriptCache.ts)                    *)
(***************************************************************************)

\* new TranscriptCache(100, 24)
CacheMaxSize == 100
CacheTtlHours == 24
CacheTtlMs == CacheTtlHours * 60 * 60 * 1000

\* result.error is absent
NoError == ""

\* null, where the code returns or passes null instead of a record
Null == [null |-> TRUE]

\* the index of videoId among the Map's keys, 0 when absent
KeyIndex(cache, videoId) ==
  IF \E k \in 1..Len(cache) : cache[k].id = videoId
  THEN CHOOSE k \in 1..Len(cache) : cache[k].id = videoId
  ELSE 0

\* Map.delete
MapDelete(cache, videoId) ==
  SelectSeq(cache, LAMBDA e : e.id # videoId)

\* Map.set: a present key keeps its place in the iteration order
MapSet(cache, videoId, entry) ==
  IF KeyIndex(cache, videoId) # 0
  THEN [cache EXCEPT ![KeyIndex(cache, videoId)] = entry]
  ELSE Append(cache, entry)

\* TranscriptCache.get: what it returns
CacheGetResult(cache, videoId, t) ==
  LET k == KeyIndex(cache, videoId)
  IN  IF k = 0 THEN Null
      ELSE IF t > cache[k].expiresAt THEN Null
      ELSE cache[k].result

\* a faulty get: a read starts the entry's lifetime anew
CacheGetMapRefreshing(cache, videoId, t) ==
  LET k == KeyIndex(cache, videoId)
  IN  IF k = 0 THEN cache
      ELSE IF t > cache[k].expiresAt THEN MapDelete(cache, videoId)
      ELSE MapSet(MapDelete(cache, videoId), videoId,
                  [cache[k] EXCEPT !.expiresAt = t + (cache[k].expiresAt - cache[k].timestamp)])

\* a faulty get: the entry read is deleted and not put back
CacheGetMapDropping(cache, videoId, t) ==
  IF KeyIndex(cache, videoId) = 0 THEN cache ELSE MapDelete(cache, videoId)

\* TranscriptCache.get: the Map after the call
CacheGetMap(cache, videoId, t) ==
  LET k == KeyIndex(cache, videoId)
  IN  IF k = 0 THEN cache
      ELSE IF t > cache[k].expiresAt THEN MapDelete(cache, videoId)
      ELSE MapSet(MapDelete(cache, videoId), videoId, cache[k])

\* a faulty set: nothing is evicted
CacheSetUnbounded(cache, maxSize, ttlMs, videoId, result, t) ==
  IF result.error # NoError THEN cache
  ELSE MapSet(cache, videoId,
              [id |-> videoId, result |-> result, timestamp |-> t,
               expiresAt |-> t + ttlMs])

\* a faulty set: results with an error are stored as well
CacheSetAnything(cache, maxSize, ttlMs, videoId, result, t) ==
  LET room == IF Len(cache) >= maxSize THEN Tail(cache) ELSE cache
  IN  MapSet(room, videoId,
             [id |-> videoId, result |-> result, timestamp |-> t,
              expiresAt |-> t + ttlMs])

\* a faulty set: nothing is stored
CacheSetNever(cache, maxSize, ttlMs, videoId, result, t) == cache

\* TranscriptCache.set: the Map after the call
CacheSet(cache, maxSize, ttlMs, videoId, result, t) ==
  IF result.error # NoError THEN cache
  ELSE LET room == IF Len(cache) >= maxSize THEN Tail(cache) ELSE cache
       IN  MapSet(room, videoId,
                  [id |-> videoId, result |-> result, timestamp |-> t,
                   expiresAt |-> t + ttlMs])

\* a faulty clearExpired: an entry is dropped at its expiry time already
CacheClearExpiredEarly(cache, t) ==
  SelectSeq(cache, LAMBDA e : ~(t >= e.expiresAt))

\* TranscriptCache.clearExpired: the Map after the call
CacheClearExpired(cache, t) ==
  SelectSeq(cache, LAMBDA e : ~(t > e.expiresAt))

\* TranscriptCache.getStats: what it returns (Date.now() is positive, so that
\* no timestamp is falsy)
CacheGetStats(cache, maxSize) ==
  LET stamps == {cache[k].timestamp : k \in 1..Len(cache)}
  IN  [size |-> Len(cache),
       maxSize |-> maxSize,
       oldestEntry |-> IF stamps = {} THEN Null
                       ELSE CHOOSE a \in stamps : \A b \in stamps : a <= b,
       newestEntry |-> IF stamps = {} THEN Null
                       ELSE CHOOSE a \in stamps : \A b \in stamps : a >= b]

\* transcript.map(t => t.text).join(' ')
RECURSIVE JoinTexts(_)
JoinTexts(transcript) ==
  IF transcript = <<>> THEN ""
  ELSE IF Len(transcript) = 1 THEN transcript[1].text
  ELSE JoinTexts(SubSeq(transcript, 1, Len(transcript) - 1)) \o " "
         \o transcript[Len(transcript)].text


(***************************************************************************)
(* Inputs: video ids, URLs, chat messages and what the network may answer  *)
(***************************************************************************)

IdA == <<"a","A","1","-","_","b","c","d","e","f","g">>
IdB == <<"B","b","2","-","_","b","c","d","e","f","h">>

LitWatchQ == <<"w","a","t","c","h","?">>

\* `https://www.youtube.com/watch?v=${videoId}`
WatchUrl(videoId) == LitHttps \o LitWww \o LitYoutubeCom \o LitWatchQ \o LitVEq \o videoId

ShortUrl(videoId) == LitHttps \o LitYoutuBe \o videoId
EmbedUrl(videoId) == LitWww \o LitYoutubeCom \o LitEmbedSlash \o videoId
\* a host in capitals: urlPattern has the i flag, the id patterns have not
CapitalUrl(videoId) == <<"Y","O","U","T","U",".","B","E","/">> \o videoId

MsgHello == <<"h","e","l","l","o",","," ","h","o","w"," ","a","r","e"," ","y","o","u","?">>

\* the chat messages the agent is invoked with
Messages ==
  << MsgHello,
     <<"s","e","e"," ">> \o ShortUrl(IdA),
     ShortUrl(IdA) \o <<" ","a","n","d"," ">> \o WatchUrl(IdB),
     CapitalUrl(IdA) \o <<" ">> \o ShortUrl(IdB),
     CapitalUrl(IdB) >>

\* the urls extractYouTubeTranscript is called with directly
DirectUrls ==
  { ShortUrl(IdA), IdA, CapitalUrl(IdA), MsgHello }

\* detectYouTubeUrls on each of the messages, computed once
DetectedUrls == [m \in 1..Len(Messages) |-> detectYouTubeUrls(Messages[m])]
Detected(text) == DetectedUrls[CHOOSE m \in 1..Len(Messages) : Messages[m] = text]

\* the urls extractYouTubeTranscript is called with, by anyone
CalledUrls ==
  DirectUrls \cup
    UNION {{DetectedUrls[m][k] : k \in 1..Len(DetectedUrls[m])} : m \in 1..Len(Messages)}

\* extractYouTubeVideoId on each of these urls, computed once
VideoIds == [url \in CalledUrls |-> extractYouTubeVideoId(url)]

\* what YoutubeTranscript.fetchTranscript may resolve to (offsets in ms)
RawTranscripts ==
  { <<>>,
    <<[text |-> "hello", offset |-> 0, duration |-> 2000],
      [text |-> "big world", offset |-> 2000, duration |-> 3000]>> }

\* messages of the errors YoutubeTranscript.fetchTranscript may reject with,
\* as word sequences
LibraryErrors ==
  { <<"Transcript", "is", "disabled", "on", "this", "video">>,
    <<"Could", "not", "find", "captions", "for", "video">>,
    <<"socket", "hang", "up">> }

\* message.includes(part), on word sequences
Includes(message, part) ==
  \E i \in 0..(Len(message) - Len(part)) :
    \A k \in 1..Len(part) : message[i + k] = part[k]

\* the record fetchVideoInfoWithAPI builds from the Data API's answer
PrimaryInfo(videoId) ==
  [videoId |-> videoId, title |-> "Talk", author |-> "Ann", channelId |-> "UC1",
   duration |-> 90, thumbnail |-> "maxres.jpg", url |-> WatchUrl(videoId),
   publishedAt |-> 0, viewCount |-> 7, description |-> "About the talk",
   tags |-> <<"talk">>]

\* the record fetchVideoInfoFallback builds from the oEmbed answer at time t
FallbackInfo(videoId, t) ==
  [videoId |-> videoId, title |-> "Talk", author |-> "Ann", channelId |-> "",
   duration |-> 0, thumbnail |-> "hq.jpg", url |-> WatchUrl(videoId),
   publishedAt |-> t, viewCount |-> 0, description |-> "", tags |-> <<>>]

\* the placeholder of extractYouTubeTranscript's catch block
UnknownInfo(videoId, t) ==
  [videoId |-> videoId, title |-> "Unknown Video", author |-> "Unknown Author",
   channelId |-> "", duration |-> 0, thumbnail |-> "", url |-> WatchUrl(videoId),
   publishedAt |-> t, viewCount |-> 0, description |-> "", tags |-> <<>>]

\* a faulty InvalidUrlResult: the url is rebuilt from the missing id instead
\* of being the caller's input
InvalidUrlResultRebuilt(url, t) ==
  [videoInfo |-> [videoId |-> <<>>, title |-> "", author |-> "", channelId |-> "",
                  duration |-> 0, thumbnail |-> "", url |-> WatchUrl(<<>>),
                  publishedAt |-> t, viewCount |-> 0, description |-> "", tags |-> <<>>],
   transcript |-> <<>>, fullText |-> "", error |-> "Invalid YouTube URL"]

\* the result extractYouTubeTranscript returns when no id can be extracted
InvalidUrlResult(url, t) ==
  [videoInfo |-> [videoId |-> <<>>, title |-> "", author |-> "", channelId |-> "",
                  duration |-> 0, thumbnail |-> "", url |-> url, publishedAt |-> t,
                  viewCount |-> 0, description |-> "", tags |-> <<>>],
   transcript |-> <<>>, fullText |-> "", error |-> "Invalid YouTube URL"]

\* fetchTranscript's map: offsets and durations from ms to seconds
ToSegments(raw) ==
  [k \in 1..Len(raw) |->
     [text |-> raw[k].text, start |-> raw[k].offset \div 1000,
      duration |-> raw[k].duration \div 1000]]

\* fetchTranscript's catch: the message of the error it throws
ClassifyTranscriptError(message) ==
  IF Includes(message, <<"Transcript", "is", "disabled">>)
  THEN "Transcript is disabled for this video"
  ELSE IF Includes(message, <<"Could", "not", "find">>)
  THEN "No transcript available for this video"
  ELSE "Failed to fetch transcript"

\* a faulty SuccessResult: the texts are joined by newlines
SuccessResultByLines(videoInfo, transcript) ==
  [videoInfo |-> videoInfo, transcript |-> transcript,
   fullText |-> IF Len(transcript) = 2
                THEN transcript[1].text \o "\n" \o transcript[2].text
                ELSE JoinTexts(transcript),
   error |-> NoError]

\* the success result of extractYouTubeTranscript
SuccessResult(videoInfo, transcript) ==
  [videoInfo |-> videoInfo, transcript |-> transcript,
   fullText |-> JoinTexts(transcript), error |-> NoError]

\* a faulty ErrorResult: the caught message is dropped for the generic one
ErrorResultGeneric(videoInfo, videoId, message, t) ==
  [videoInfo |-> IF videoInfo = Null THEN UnknownInfo(videoId, t) ELSE videoInfo,
   transcript |-> <<>>, fullText |-> "",
   error |-> "Failed to extract transcript. The video might not have captions available."]

\* the result of extractYouTubeTranscript's catch block
ErrorResult(videoInfo, videoId, message, t) ==
  [videoInfo |-> IF videoInfo = Null THEN UnknownInfo(videoId, t) ELSE videoInfo,
   transcript |-> <<>>, fullText |-> "",
   error |-> IF message = "" THEN "Failed to extract transcript. The video might not have captions available."
             ELSE message]


(***************************************************************************)
(* State                                                                   *)
(***************************************************************************)

VARIABLES
  now,                \* Date.now()
  apiKey,             \* getYouTubeApiKey() is configured
  hasWindow,          \* typeof window !== 'undefined' in the process that has
                      \* loaded transcriptCache.ts
  parked,             \* an extractYouTubeTranscript call suspended at an await
                      \* while another one runs
  cache,              \* transcriptCache: the Map's entries in iteration order
  videoInfoRequests,  \* videoInfoRateLimiter.requests
  transcriptRequests, \* transcriptRateLimiter.requests
  netCalls,           \* network calls started since the last call of
                      \* extractYouTubeTranscript began, by kind
  xpc,                \* extractYouTubeTranscript: where the call stands
  xurl,               \* its argument
  xid,                \* its videoId
  info,               \* the fetchVideoInfoWithAPI call of Promise.all
  tr,                 \* the fetchTranscript call of Promise.all
  retry,              \* the fetchVideoInfoWithAPI call of the catch block
  xerr,               \* the message of the error the catch block caught
  xresult,            \* what the call resolved to
  dangling,           \* metadata fetches still running after Promise.all rejected
  calls,              \* direct calls of extractYouTubeTranscript made so far
  returns,            \* the results without error the direct calls returned,
                      \* in order, each with its url and the time of its return
  rlRequests,         \* requests of a RateLimiter constructed on its own
  recorded,           \* the times at which its recordRequest ran since its
                      \* construction or reset
  waiters,            \* the callers of waitForRateLimit on it
  entries,            \* the Map of a TranscriptCache constructed on its own
  got,                \* the last method called on either of the two, with its
                      \* arguments, what it returned, when, and how many
                      \* recordRequest calls preceded it
  used,               \* its ids from the least to the most recently used
  variant,            \* which searchAndAnswer runs: "deferred" or "inline"
  rpc,                \* the chat route's POST: where it stands
  apc,                \* the agent's orchestration: where it stands
  message,            \* the chat message
  microtasks,         \* the event loop's microtask queue
  immediates,         \* the event loop's setImmediate queue
  listeners,          \* the route has attached its listeners to the emitter
  youtubeUrls,        \* detectYouTubeUrls(message)
  urlIdx,             \* the for loop's position in youtubeUrls
  transcriptResults,  \* the agent's transcriptResults
  documents,          \* the agent's documents
  llmCalls,           \* streamEvents calls made in this invocation
  chunks,             \* stream chunks received in this invocation
  emitted,            \* the events emitted in this invocation, in order
  delivered,          \* the events a listener received, in order
  invocations         \* chat requests made so far

sharedVars == <<now, apiKey, hasWindow, parked, cache, videoInfoRequests, transcriptRequests, netCalls>>
extractVars == <<xpc, xurl, xid, info, tr, retry, xerr, xresult, dangling, calls, returns>>
unitVars == <<rlRequests, recorded, waiters, entries, got, used>>
agentVars == <<variant, rpc, apc, message, microtasks, immediates, listeners,
               youtubeUrls, urlIdx, transcriptResults, documents, llmCalls, chunks,
               emitted, delivered, invocations>>
vars == <<sharedVars, extractVars, agentVars, unitVars>>

\* bounds of the exploration
MaxCalls == 2
MaxInvocations == 1
MaxChunks == 1

NoCalls == [primary |-> 0, fallback |-> 0, transcript |-> 0, abandoned |-> 0]

\* the callers of waitForRateLimit on the RateLimiter constructed on its own
MaxCallers == 2
Callers == 1..MaxCallers
NotWaiting == [pc |-> "idle", wakeAt |-> 0]

\* no method of the instances constructed on their own has been called yet
NoReturn == [op |-> "none", arg |-> Null, value |-> Null, at |-> 0, n |-> 0]

NoTask == [pc |-> "none", wakeAt |-> 0, res |-> Null, err |-> ""]

FullWindow(maxRequests) == [k \in 1..maxRequests |-> 0]

\* no call of extractYouTubeTranscript is suspended beside the running one
NoContext ==
  [xpc |-> "idle", xurl |-> <<>>, xid |-> NoId, info |-> NoTask, tr |-> NoTask,
   retry |-> NoTask, xerr |-> "", xresult |-> Null, netCalls |-> NoCalls]

\* the state after the modules are loaded, in whichever process loads them
Loaded ==
  /\ now = 0
  /\ parked = NoContext
  /\ apiKey \in BOOLEAN
  /\ cache = <<>>
  /\ videoInfoRequests \in {<<>>, FullWindow(VideoInfoMaxRequests)}
  /\ transcriptRequests \in {<<>>, FullWindow(TranscriptMaxRequests)}
  /\ netCalls = NoCalls
  /\ xpc = "idle"
  /\ xurl = <<>>
  /\ xid = NoId
  /\ info = NoTask
  /\ tr = NoTask
  /\ retry = NoTask
  /\ xerr = ""
  /\ xresult = Null
  /\ dangling = EmptyBag
  /\ calls = 0
  /\ returns = <<>>
  /\ rlRequests = <<>>
  /\ recorded = <<>>
  /\ waiters = [c \in Callers |-> NotWaiting]
  /\ entries = <<>>
  /\ got = NoReturn
  /\ used = <<>>
  /\ variant = "deferred"
  /\ rpc = "idle"
  /\ apc = "idle"
  /\ message = <<>>
  /\ microtasks = <<>>
  /\ immediates = <<>>
  /\ listeners = FALSE
  /\ youtubeUrls = <<>>
  /\ urlIdx = 0
  /\ transcriptResults = <<>>
  /\ documents = <<>>
  /\ llmCalls = 0
  /\ chunks = 0
  /\ emitted = <<>>
  /\ delivered = <<>>
  /\ invocations = 0

\* the server process, which runs the chat route, the agent and the
\* extraction, has no window
Init ==
  /\ Loaded
  /\ hasWindow = FALSE

(***************************************************************************)
(* fetchVideoInfoWithAPI, fetchVideoInfoFallback, fetchTranscript          *)
(***************************************************************************)

\* a faulty fetchVideoInfoWithAPI: the Data API is called without a key too
AfterInfoSlotPrimary == [pc |-> "primary", wakeAt |-> 0, res |-> Null, err |-> ""]

\* fetchVideoInfoWithAPI after waitForRateLimit: without a key the fallback
\* call is started, with one the Data API call
AfterInfoSlot ==
  IF apiKey THEN [pc |-> "primary", wakeAt |-> 0, res |-> Null, err |-> ""]
  ELSE [pc |-> "fallback", wakeAt |-> 0, res |-> Null, err |-> ""]

\* waitForRateLimit: the caller after the synchronous part, given what it
\* does once it has its slot
WaitOrGo(requests, maxRequests, windowMs, t, go) ==
  IF getWaitTime(requests, maxRequests, windowMs, t) > 0
  THEN [pc |-> "wait", wakeAt |-> t + getWaitTime(requests, maxRequests, windowMs, t),
        res |-> Null, err |-> ""]
  ELSE go

\* waitForRateLimit: the limiter's window after the synchronous part
WindowAfterWaitOrGo(requests, maxRequests, windowMs, t) ==
  IF getWaitTime(requests, maxRequests, windowMs, t) > 0 THEN requests
  ELSE recordRequest(requests, windowMs, t)

\* fetchVideoInfoWithAPI up to its first suspension
StartInfo(requests, t) ==
  WaitOrGo(requests, VideoInfoMaxRequests, VideoInfoWindowMs, t, AfterInfoSlot)

AfterTranscriptSlot == [pc |-> "call", wakeAt |-> 0, res |-> Null, err |-> ""]

\* fetchTranscript up to its first suspension
StartTranscript(requests, t) ==
  WaitOrGo(requests, TranscriptMaxRequests, TranscriptWindowMs, t, AfterTranscriptSlot)

\* network calls a metadata fetch starts when it moves from task a to task b
CountInfoCalls(n, a, b) ==
  [n EXCEPT !.primary = @ + (IF a.pc # "primary" /\ b.pc = "primary" THEN 1 ELSE 0),
            !.fallback = @ + (IF a.pc # "fallback" /\ b.pc = "fallback" THEN 1 ELSE 0)]

CountTranscriptCalls(n, a, b) ==
  [n EXCEPT !.transcript = @ + (IF a.pc # "call" /\ b.pc = "call" THEN 1 ELSE 0)]

\* the catch of fetchVideoInfoWithAPI: any failure of the primary call
\* starts the fallback call
PrimaryFailed == [pc |-> "fallback", wakeAt |-> 0, res |-> Null, err |-> ""]

\* a faulty fetchVideoInfoFallback: the catch rethrows
FallbackRethrows ==
  [pc |-> "thrown", wakeAt |-> 0, res |-> Null, err |-> "oEmbed request failed"]

\* the catch of fetchVideoInfoFallback: return null
FallbackFailed == [pc |-> "done", wakeAt |-> 0, res |-> Null, err |-> ""]

Done(res) == [pc |-> "done", wakeAt |-> 0, res |-> res, err |-> ""]
Thrown(msg) == [pc |-> "thrown", wakeAt |-> 0, res |-> Null, err |-> msg]

\* the time at which a timer set for wakeAt fires
FireTime(wakeAt) == IF now < wakeAt THEN wakeAt ELSE now


(***************************************************************************)
(* extractYouTubeTranscript                                                *)
(***************************************************************************)

Pending(task) == task.pc \in {"wait", "primary", "fallback", "call"}

\* A metadata fetch that Promise.all no longer waits for keeps running. One
\* that still waits for its rate-limiter slot will yet record a request; one
\* that has its slot can change nothing any more but the network's load.
Abandon(bag, task) ==
  IF task.pc = "wait" THEN bag (+) SetToBag({[pc |-> task.pc, wakeAt |-> task.wakeAt]})
  ELSE bag

\* extractYouTubeTranscript's catch block up to its first suspension: the
\* second fetchVideoInfoWithAPI call is started. i2 is the first metadata
\* fetch, reqs and n the metadata window and the call counts so far.
EnterCatch(msg, i2, reqs, n, t) ==
  LET r2 == StartInfo(reqs, t)
  IN  /\ xerr' = msg
      /\ retry' = r2
      /\ videoInfoRequests' =
           WindowAfterWaitOrGo(reqs, VideoInfoMaxRequests, VideoInfoWindowMs, t)
      /\ netCalls' = CountInfoCalls(n, NoTask, r2)
      /\ dangling' = Abandon(dangling, i2)
      /\ info' = NoTask
      /\ tr' = NoTask
      /\ xpc' = "retry"
      /\ xresult' = Null
      /\ cache' = cache

\* Promise.all([fetchVideoInfoWithAPI, fetchTranscript]) and what follows it
\* in the try block, once the two fetches stand at i2 and t2
SettleFirst(i2, t2, reqs, n, t) ==
  IF t2.pc = "thrown" THEN EnterCatch(t2.err, i2, reqs, n, t)
  ELSE IF i2.pc = "thrown" THEN EnterCatch(i2.err, i2, reqs, n, t)
  ELSE IF i2.pc = "done" /\ t2.pc = "done"
  THEN IF i2.res = Null
       THEN EnterCatch("Failed to fetch video information", i2, reqs, n, t)
       ELSE /\ xresult' = SuccessResult(i2.res, t2.res)
            /\ cache' = CacheSet(cache, CacheMaxSize, CacheTtlMs, xid,
                                 SuccessResult(i2.res, t2.res), t)
            /\ xpc' = "returned"
            /\ info' = NoTask
            /\ tr' = NoTask
            /\ videoInfoRequests' = reqs
            /\ netCalls' = n
            /\ UNCHANGED <<retry, xerr, dangling>>
  ELSE /\ info' = i2
       /\ tr' = t2
       /\ videoInfoRequests' = reqs
       /\ netCalls' = n
       /\ UNCHANGED <<retry, xerr, dangling, xpc, xresult, cache>>

\* the catch block once its metadata fetch stands at r2
SettleRetry(r2, reqs, n, t) ==
  /\ videoInfoRequests' = reqs
  /\ netCalls' = n
  /\ UNCHANGED <<info, tr, dangling, cache>>
  /\ IF r2.pc = "done"
     THEN /\ xresult' = ErrorResult(r2.res, xid, xerr, t)
          /\ xpc' = "returned"
          /\ retry' = NoTask
          /\ xerr' = xerr
     ELSE IF r2.pc = "thrown"
     THEN /\ xresult' = Null
          /\ xpc' = "threw"
          /\ retry' = NoTask
          /\ xerr' = r2.err
     ELSE /\ retry' = r2
          /\ UNCHANGED <<xresult, xpc, xerr>>

Which == {"first", "second"}
InfoTask(w) == IF w = "first" THEN info ELSE retry
InfoRuns(w) == IF w = "first" THEN xpc = "fetching" ELSE xpc = "retry"
SettleInfo(w, new, reqs, n, t) ==
  IF w = "first" THEN SettleFirst(new, tr, reqs, n, t) ELSE SettleRetry(new, reqs, n, t)

\* the synchronous part of extractYouTubeTranscript(url)
CallExtract(url) ==
  LET videoId == VideoIds[url]
      cached  == CacheGetResult(cache, videoId, now)
      i2      == StartInfo(videoInfoRequests, now)
      t2      == StartTranscript(transcriptRequests, now)
  IN  /\ xurl' = url
      /\ xid' = videoId
      /\ retry' = NoTask
      /\ xerr' = ""
      /\ UNCHANGED <<now, apiKey, hasWindow, parked, dangling>>
      /\ IF videoId = NoId
         THEN /\ xresult' = InvalidUrlResult(url, now)
              /\ xpc' = "returned"
              /\ netCalls' = NoCalls
              /\ UNCHANGED <<cache, videoInfoRequests, transcriptRequests, info, tr>>
         ELSE IF cached # Null
         THEN /\ xresult' = cached
              /\ xpc' = "returned"
              /\ cache' = CacheGetMap(cache, videoId, now)
              /\ netCalls' = NoCalls
              /\ UNCHANGED <<videoInfoRequests, transcriptRequests, info, tr>>
         ELSE /\ xresult' = Null
              /\ xpc' = "fetching"
              /\ cache' = CacheGetMap(cache, videoId, now)
              /\ info' = i2
              /\ tr' = t2
              /\ videoInfoRequests' =
                   WindowAfterWaitOrGo(videoInfoRequests, VideoInfoMaxRequests,
                                       VideoInfoWindowMs, now)
              /\ transcriptRequests' =
                   WindowAfterWaitOrGo(transcriptRequests, TranscriptMaxRequests,
                                       TranscriptWindowMs, now)
              /\ netCalls' = CountTranscriptCalls(CountInfoCalls(NoCalls, NoTask, i2),
                                                  NoTask, t2)

\* the timer of waitForRateLimit(videoInfoRateLimiter) fires
InfoWake(w) ==
  /\ InfoRuns(w)
  /\ InfoTask(w).pc = "wait"
  /\ LET t == FireTime(InfoTask(w).wakeAt)
     IN  /\ now' = t
         /\ SettleInfo(w, AfterInfoSlot,
                       recordRequest(videoInfoRequests, VideoInfoWindowMs, t),
                       CountInfoCalls(netCalls, InfoTask(w), AfterInfoSlot), t)
  /\ UNCHANGED <<apiKey, hasWindow, parked, transcriptRequests, xurl, xid, calls, returns, unitVars, agentVars>>

\* youtube.videos.list answers or fails
InfoPrimaryDone(w, ok) ==
  /\ InfoRuns(w)
  /\ InfoTask(w).pc = "primary"
  /\ LET new == IF ok THEN Done(PrimaryInfo(xid)) ELSE PrimaryFailed
     IN  SettleInfo(w, new, videoInfoRequests,
                    CountInfoCalls(netCalls, InfoTask(w), new), now)
  /\ UNCHANGED <<now, apiKey, hasWindow, parked, transcriptRequests, xurl, xid, calls, returns, unitVars, agentVars>>

\* the oEmbed request answers or fails
InfoFallbackDone(w, ok) ==
  /\ InfoRuns(w)
  /\ InfoTask(w).pc = "fallback"
  /\ LET new == IF ok THEN Done(FallbackInfo(xid, now)) ELSE FallbackFailed
     IN  SettleInfo(w, new, videoInfoRequests, netCalls, now)
  /\ UNCHANGED <<now, apiKey, hasWindow, parked, transcriptRequests, xurl, xid, calls, returns, unitVars, agentVars>>

\* the timer of waitForRateLimit(transcriptRateLimiter) fires
TranscriptWake ==
  /\ xpc = "fetching"
  /\ tr.pc = "wait"
  /\ LET t == FireTime(tr.wakeAt)
     IN  /\ now' = t
         /\ transcriptRequests' = recordRequest(transcriptRequests, TranscriptWindowMs, t)
         /\ SettleFirst(info, AfterTranscriptSlot, videoInfoRequests,
                        CountTranscriptCalls(netCalls, tr, AfterTranscriptSlot), t)
  /\ UNCHANGED <<apiKey, hasWindow, parked, xurl, xid, calls, returns, unitVars, agentVars>>

\* YoutubeTranscript.fetchTranscript resolves
TranscriptDone(raw) ==
  /\ xpc = "fetching"
  /\ tr.pc = "call"
  /\ SettleFirst(info, Done(ToSegments(raw)), videoInfoRequests, netCalls, now)
  /\ UNCHANGED <<now, apiKey, hasWindow, parked, transcriptRequests, xurl, xid, calls, returns, unitVars, agentVars>>

\* YoutubeTranscript.fetchTranscript rejects
TranscriptRaise(libraryMessage) ==
  /\ xpc = "fetching"
  /\ tr.pc = "call"
  /\ SettleFirst(info, Thrown(ClassifyTranscriptError(libraryMessage)),
                 videoInfoRequests, netCalls, now)
  /\ UNCHANGED <<now, apiKey, hasWindow, parked, transcriptRequests, xurl, xid, calls, returns, unitVars, agentVars>>

\* an abandoned metadata fetch goes on: its timer fires (no timer fires
\* before the continuation of a caller whose promise has settled)
DanglingWake ==
  \E d \in BagToSet(dangling) :
    /\ xpc \notin {"returned", "threw"}
    /\ d.pc = "wait"
    /\ now' = FireTime(d.wakeAt)
    /\ videoInfoRequests' =
         recordRequest(videoInfoRequests, VideoInfoWindowMs, FireTime(d.wakeAt))
    /\ dangling' = dangling (-) SetToBag({d})
    /\ netCalls' = [netCalls EXCEPT !.abandoned = @ + 1]
    /\ UNCHANGED <<apiKey, hasWindow, parked, cache, transcriptRequests, xpc, xurl, xid, info, tr, retry,
                   xerr, xresult, calls, returns, unitVars, agentVars>>

\* Nothing is in flight and a further call or request may come: the time
\* between two of them is what counts on the scale of the limiter windows
\* and the cache's TTL (within a call, time passes where a timer is awaited)
Suspended ==
  /\ xpc = "idle"
  /\ apc \in {"idle", "finished", "failed", "crashed"}
  /\ invocations < MaxInvocations \/ (rpc = "idle" /\ calls < MaxCalls)

\* time passes
Tick ==
  /\ Suspended
  /\ now < MaxTicks * TickMs
  /\ now' = now + TickMs
  /\ UNCHANGED <<apiKey, hasWindow, parked, cache, videoInfoRequests, transcriptRequests, netCalls,
                 extractVars, unitVars, agentVars>>

\* extractYouTubeTranscript(url) called by a caller of its own
DirectCall(url) ==
  /\ xpc = "idle"
  /\ rpc = "idle"
  /\ calls < MaxCalls
  /\ calls' = calls + 1
  /\ CallExtract(url)
  /\ UNCHANGED <<returns, agentVars, unitVars>>

\* the caller has its answer
DirectReturn ==
  /\ xpc \in {"returned", "threw"}
  /\ rpc = "idle"
  /\ xpc' = "idle"
  /\ xurl' = <<>>
  /\ xid' = NoId
  /\ xerr' = ""
  /\ xresult' = Null
  /\ returns' = IF xpc = "returned" /\ xresult.error = NoError
                THEN Append(returns, [url |-> xurl, result |-> xresult, at |-> now])
                ELSE returns
  /\ UNCHANGED <<sharedVars, info, tr, retry, dangling, calls, unitVars, agentVars>>

FetchStep ==
  \/ \E w \in Which : InfoWake(w)
  \/ \E w \in Which, ok \in BOOLEAN : InfoPrimaryDone(w, ok)
  \/ \E w \in Which, ok \in BOOLEAN : InfoFallbackDone(w, ok)
  \/ TranscriptWake
  \/ \E raw \in RawTranscripts : TranscriptDone(raw)
  \/ \E m \in LibraryErrors : TranscriptRaise(m)
  \/ DanglingWake

ExtractNext ==
  \/ \E url \in DirectUrls : DirectCall(url)
  \/ DirectReturn
  \/ FetchStep
  \/ Tick

\* extractYouTubeTranscript under callers that call it one call after another
ExtractSpec == Init /\ [][ExtractNext]_vars


(***************************************************************************)
(* YouTubeTranscriptAgent and the chat route                               *)
(***************************************************************************)

Variants == {"deferred", "inline"}

PromptForUrl == "Please provide a YouTube URL to analyze. I can extract transcripts from YouTube videos and answer questions about their content."
NoTranscripts == "I couldn't extract transcripts from the YouTube videos. The videos might not have captions available, or there might be an issue with the URLs provided."
StreamFailure == "stream failed"
ChunkText == "chunk"

ResponseEvent(text) == [type |-> "response", data |-> text]
SourcesEvent(sources) == [type |-> "sources", data |-> sources]
EndEvent == [type |-> "end", data |-> ""]
ErrorEvent(msg) == [type |-> "error", data |-> msg]

\* the structured block used as pageContent when fullText is empty
\* (title, author and description of it)
MetadataBlock(videoInfo) ==
  "Title: " \o videoInfo.title \o "\nAuthor: " \o videoInfo.author
    \o "\n\nDescription:\n"
    \o (IF videoInfo.description = "" THEN "No description available"
        ELSE videoInfo.description)

\* the pageContent of a source: only the deferred variant has the fallback
SourceContent(v, result) ==
  IF v = "deferred" /\ result.fullText = "" THEN MetadataBlock(result.videoInfo)
  ELSE result.fullText

\* a faulty SourcesOf: no filter
SourcesOfAll(v, results) ==
  [k \in 1..Len(results) |->
     [pageContent |-> SourceContent(v, results[k]),
      title |-> results[k].videoInfo.title,
      url |-> results[k].videoInfo.url,
      videoId |-> results[k].videoInfo.videoId,
      transcriptLength |-> Len(results[k].transcript),
      transcript |-> results[k].transcript]]

\* transcriptResults.filter(r => !r.error).map(...)
RECURSIVE SourcesOf(_, _)
SourcesOf(v, results) ==
  IF results = <<>> THEN <<>>
  ELSE LET r == results[Len(results)]
           front == SourcesOf(v, SubSeq(results, 1, Len(results) - 1))
       IN  IF r.error # NoError THEN front
           ELSE Append(front, [pageContent |-> SourceContent(v, r),
                               title |-> r.videoInfo.title,
                               url |-> r.videoInfo.url,
                               videoId |-> r.videoInfo.videoId,
                               transcriptLength |-> Len(r.transcript),
                               transcript |-> r.transcript])

\* youTubeTranscriptToDocument
youTubeTranscriptToDocument(result) ==
  [pageContent |-> result.fullText, source |-> result.videoInfo.url,
   videoId |-> result.videoInfo.videoId, transcriptLength |-> Len(result.transcript)]

\* context: () => documents.map(doc => doc.pageContent).join('\n\n'), the
\* context the chain passes to the model
RECURSIVE ContextOf(_)
ContextOf(docs) ==
  IF docs = <<>> THEN ""
  ELSE IF Len(docs) = 1 THEN docs[1].pageContent
  ELSE ContextOf(SubSeq(docs, 1, Len(docs) - 1)) \o "\n\n" \o docs[Len(docs)].pageContent

\* a faulty searchAndAnswer: the orchestration is never deferred
searchAndAnswerUndeferred(v) ==
  [apc |-> "detect", immediates |-> <<>>, microtasks |-> <<>>]

\* searchAndAnswer up to its return: the deferred variant hands the
\* orchestration to setImmediate and returns, so the caller's continuation is
\* queued as a microtask; the inline variant runs the orchestration itself
searchAndAnswerStart(v) ==
  IF v = "deferred"
  THEN [apc |-> "scheduled", immediates |-> <<"process">>, microtasks |-> <<"attach">>]
  ELSE [apc |-> "detect", immediates |-> <<>>, microtasks |-> <<>>]

\* emitter.emit for each of evs in turn: a listener receives what is emitted
\* while it is attached
Emit(evs) ==
  /\ emitted' = emitted \o evs
  /\ delivered' = IF listeners THEN delivered \o evs ELSE delivered

\* emitter.emit('error', ...) throws when no 'error' listener is attached
AfterErrorEmit == IF listeners THEN "failed" ELSE "crashed"

\* a faulty no-URL branch: the 'end' is forgotten
OnNoUrlsUnended == <<ResponseEvent(PromptForUrl)>>

\* the no-URL branch
OnNoUrls == <<ResponseEvent(PromptForUrl), EndEvent>>

\* the branch taken when no result is free of error
OnAllFailed == <<ResponseEvent(NoTranscripts), EndEvent>>

\* a faulty test: `if (transcriptResults.length > 0)`
HasResults(docs, results) == Len(results) > 0

\* `if (documents.length > 0)`
HasDocuments(docs, results) == Len(docs) > 0

\* a faulty agent: the sources are not emitted
OnStreamCreatedSilent(v, results) == <<>>

\* what is emitted once streamEvents has returned the stream
OnStreamCreated(v, results) == <<SourcesEvent(SourcesOf(v, results))>>

\* what the loop does on on_chain_stream of YouTubeTranscriptResponseChain
OnChainStream == <<ResponseEvent(ChunkText)>>

\* a faulty loop: on_chain_end is ignored
OnChainEndIgnored == <<>>

\* what the loop does on on_chain_end of YouTubeTranscriptResponseChain
OnChainEnd == <<EndEvent>>

\* a faulty catch: 'end' follows the 'error'
OnCaughtThenEnd(msg) == <<ErrorEvent(msg), EndEvent>>

\* the catch of processYouTubeSearch
OnCaught(msg) == <<ErrorEvent(msg)>>

\* POST: handler.searchAndAnswer(message.content, ...) is called
RouteCall(m, v) ==
  /\ invocations < MaxInvocations
  /\ xpc = "idle"
  /\ \/ rpc = "idle"
     \/ rpc \in {"streaming", "failed"} /\ apc \in {"finished", "failed", "crashed"}
  /\ invocations' = invocations + 1
  /\ variant' = v
  /\ message' = Messages[m]
  /\ rpc' = "awaiting"
  /\ apc' = searchAndAnswerStart(v).apc
  /\ immediates' = searchAndAnswerStart(v).immediates
  /\ microtasks' = searchAndAnswerStart(v).microtasks
  /\ listeners' = FALSE
  /\ youtubeUrls' = <<>>
  /\ urlIdx' = 0
  /\ transcriptResults' = <<>>
  /\ documents' = <<>>
  /\ llmCalls' = 0
  /\ chunks' = 0
  /\ emitted' = <<>>
  /\ delivered' = <<>>
  /\ UNCHANGED <<sharedVars, extractVars, unitVars>>

\* the route's continuation after `await handler.searchAndAnswer(...)`:
\* handleEmitterEvents attaches the 'data', 'end' and 'error' listeners
RunMicrotask ==
  /\ microtasks # <<>>
  /\ Head(microtasks) = "attach"
  /\ microtasks' = Tail(microtasks)
  /\ listeners' = TRUE
  /\ rpc' = "streaming"
  /\ UNCHANGED <<sharedVars, extractVars, unitVars, variant, apc, message, immediates, youtubeUrls,
                 urlIdx, transcriptResults, documents, llmCalls, chunks, emitted,
                 delivered, invocations>>

\* the setImmediate callback runs once the microtask queue is empty
RunImmediate ==
  /\ microtasks = <<>>
  /\ immediates # <<>>
  /\ Head(immediates) = "process"
  /\ immediates' = Tail(immediates)
  /\ apc' = "detect"
  /\ UNCHANGED <<sharedVars, extractVars, unitVars, variant, rpc, message, microtasks, listeners,
                 youtubeUrls, urlIdx, transcriptResults, documents, llmCalls, chunks,
                 emitted, delivered, invocations>>

\* the promise of a searchAndAnswer that ran the orchestration itself
\* resolves: the route attaches its listeners
InlineReturn ==
  /\ rpc = "awaiting"
  /\ apc \in {"finished", "failed"}
  /\ microtasks = <<>>
  /\ listeners' = TRUE
  /\ rpc' = "streaming"
  /\ UNCHANGED <<sharedVars, extractVars, unitVars, variant, apc, message, microtasks, immediates,
                 youtubeUrls, urlIdx, transcriptResults, documents, llmCalls, chunks,
                 emitted, delivered, invocations>>

\* ... or rejects: POST's catch answers with status 500
InlineReject ==
  /\ rpc = "awaiting"
  /\ apc = "crashed"
  /\ microtasks = <<>>
  /\ rpc' = "failed"
  /\ UNCHANGED <<sharedVars, extractVars, unitVars, variant, apc, message, microtasks, immediates,
                 listeners, youtubeUrls, urlIdx, transcriptResults, documents, llmCalls,
                 chunks, emitted, delivered, invocations>>

\* detectYouTubeUrls(message), and the whole of the no-URL branch
Detect ==
  /\ apc = "detect"
  /\ LET urls == Detected(message)
     IN  IF Len(urls) > 0
         THEN /\ youtubeUrls' = urls
              /\ urlIdx' = 1
              /\ apc' = "loop"
              /\ UNCHANGED <<emitted, delivered>>
         ELSE /\ Emit(OnNoUrls)
              /\ apc' = "finished"
              /\ UNCHANGED <<youtubeUrls, urlIdx>>
  /\ UNCHANGED <<sharedVars, extractVars, unitVars, variant, rpc, message, microtasks, immediates,
                 listeners, transcriptResults, documents, llmCalls, chunks, invocations>>

\* the for loop calls extractYouTubeTranscript(url)
LoopCall ==
  /\ apc = "loop"
  /\ urlIdx <= Len(youtubeUrls)
  /\ xpc = "idle"
  /\ CallExtract(youtubeUrls[urlIdx])
  /\ apc' = "extracting"
  /\ UNCHANGED <<calls, returns, unitVars, variant, rpc, message, microtasks, immediates, listeners, youtubeUrls,
                 urlIdx, transcriptResults, documents, llmCalls, chunks, emitted,
                 delivered, invocations>>

\* the await of the loop body resumes: the result is pushed, and its document
\* if it has no error; a rejection is caught and logged
LoopReceive ==
  /\ apc = "extracting"
  /\ xpc \in {"returned", "threw"}
  /\ IF xpc = "returned"
     THEN /\ transcriptResults' = Append(transcriptResults, xresult)
          /\ documents' = IF xresult.error = NoError
                          THEN Append(documents, youTubeTranscriptToDocument(xresult))
                          ELSE documents
     ELSE UNCHANGED <<transcriptResults, documents>>
  /\ urlIdx' = urlIdx + 1
  /\ apc' = "loop"
  /\ xpc' = "idle"
  /\ xurl' = <<>>
  /\ xid' = NoId
  /\ xerr' = ""
  /\ xresult' = Null
  /\ UNCHANGED <<sharedVars, info, tr, retry, dangling, calls, returns, unitVars, variant, rpc, message,
                 microtasks, immediates, listeners, youtubeUrls, llmCalls, chunks,
                 emitted, delivered, invocations>>

\* after the loop: with a document the chain is built and streamEvents is
\* awaited, without one the all-failed branch runs
LoopExit ==
  /\ apc = "loop"
  /\ urlIdx > Len(youtubeUrls)
  /\ IF HasDocuments(documents, transcriptResults)
     THEN /\ apc' = "creating"
          /\ UNCHANGED <<emitted, delivered>>
     ELSE /\ Emit(OnAllFailed)
          /\ apc' = "finished"
  /\ UNCHANGED <<sharedVars, extractVars, unitVars, variant, rpc, message, microtasks, immediates,
                 listeners, youtubeUrls, urlIdx, transcriptResults, documents, llmCalls,
                 chunks, invocations>>

\* `await basicYouTubeChain.streamEvents(...)` returns the stream, and the
\* sources are emitted; or it raises, and the catch emits 'error'
StreamCreate(ok) ==
  /\ apc = "creating"
  /\ llmCalls' = llmCalls + 1
  /\ IF ok
     THEN /\ Emit(OnStreamCreated(variant, transcriptResults))
          /\ apc' = "streaming"
     ELSE /\ Emit(OnCaught(StreamFailure))
          /\ apc' = AfterErrorEmit
  /\ UNCHANGED <<sharedVars, extractVars, unitVars, variant, rpc, message, microtasks, immediates,
                 listeners, youtubeUrls, urlIdx, transcriptResults, documents, chunks,
                 invocations>>

\* the stream yields on_chain_stream of YouTubeTranscriptResponseChain
StreamChunk ==
  /\ apc = "streaming"
  /\ chunks < MaxChunks
  /\ chunks' = chunks + 1
  /\ Emit(OnChainStream)
  /\ UNCHANGED <<sharedVars, extractVars, unitVars, variant, rpc, apc, message, microtasks,
                 immediates, listeners, youtubeUrls, urlIdx, transcriptResults, documents,
                 llmCalls, invocations>>

\* the stream yields on_chain_end of YouTubeTranscriptResponseChain, the last
\* event of a run that succeeds
StreamChainEnd ==
  /\ apc = "streaming"
  /\ Emit(OnChainEnd)
  /\ apc' = "ended"
  /\ UNCHANGED <<sharedVars, extractVars, unitVars, variant, rpc, message, microtasks, immediates,
                 listeners, youtubeUrls, urlIdx, transcriptResults, documents, llmCalls,
                 chunks, invocations>>

\* the stream raises (a run that fails yields no on_chain_end): the catch
\* emits 'error'
StreamRaise ==
  /\ apc = "streaming"
  /\ Emit(OnCaught(StreamFailure))
  /\ apc' = AfterErrorEmit
  /\ UNCHANGED <<sharedVars, extractVars, unitVars, variant, rpc, message, microtasks, immediates,
                 listeners, youtubeUrls, urlIdx, transcriptResults, documents, llmCalls,
                 chunks, invocations>>

\* the stream is exhausted: the for await loop ends
StreamDone ==
  /\ apc = "ended"
  /\ apc' = "finished"
  /\ UNCHANGED <<sharedVars, extractVars, unitVars, variant, rpc, message, microtasks, immediates,
                 listeners, youtubeUrls, urlIdx, transcriptResults, documents, llmCalls,
                 chunks, emitted, delivered, invocations>>

AgentStep ==
  \/ RunMicrotask
  \/ RunImmediate
  \/ InlineReturn
  \/ InlineReject
  \/ Detect
  \/ LoopCall
  \/ LoopReceive
  \/ LoopExit
  \/ \E ok \in BOOLEAN : StreamCreate(ok)
  \/ StreamChunk
  \/ StreamChainEnd
  \/ StreamRaise
  \/ StreamDone

Next ==
  \/ \E m \in 1..Len(Messages), v \in Variants : RouteCall(m, v)
  \/ AgentStep
  \/ FetchStep
  \/ Tick

\* chat requests served one after another
Spec == Init /\ [][Next]_vars

\* every step the event loop, the network, the timers or the generator owes
\* is eventually taken
LiveSpec == Spec /\ WF_vars(AgentStep) /\ WF_vars(FetchStep)


(***************************************************************************)
(* The event stream of one invocation                                      *)
(***************************************************************************)

Positions(evs, types) == {k \in 1..Len(evs) : evs[k].type \in types}
TypesOf(evs) == [k \in 1..Len(evs) |-> evs[k].type]
Terminal == {"end", "error"}
ErrorFree(results) == SelectSeq(results, LAMBDA r : r.error = NoError)
Over == apc \in {"finished", "failed", "crashed"}

\* C1: in every invocation at most one 'sources' is emitted, it precedes
\* every 'response' of that invocation, every 'response' precedes the
\* terminal event, and once an extraction has succeeded no 'response' is
\* emitted that no 'sources' precedes.
C1_SourcesFirst ==
  /\ Cardinality(Positions(emitted, {"sources"})) <= 1
  /\ \A i \in Positions(emitted, {"sources"}), j \in Positions(emitted, {"response"}) : i < j
  /\ \A j \in Positions(emitted, {"response"}), k \in Positions(emitted, Terminal) : j < k
  /\ ErrorFree(transcriptResults) # <<>>
       => \A j \in Positions(emitted, {"response"}) :
            \E i \in Positions(emitted, {"sources"}) : i < j

C1_Witness ==
  /\ TypesOf(emitted) = <<"sources", "response", "end">>
  /\ Len(emitted[1].data) = 2

\* C2: an invocation emits at most one terminal event ('end' or 'error'),
\* nothing follows it, and when creating or iterating the generator stream
\* raised exactly one 'error' with the failure's message is emitted and no
\* 'end'; an 'error' is emitted on no other path.
C2_OneTerminal ==
  /\ Cardinality(Positions(emitted, Terminal)) <= 1
  /\ \A k \in Positions(emitted, Terminal) : k = Len(emitted)
  /\ apc \in {"failed", "crashed"}
       => /\ llmCalls = 1
          /\ Positions(emitted, {"error"}) = {Len(emitted)}
          /\ Positions(emitted, {"end"}) = {}
          /\ emitted[Len(emitted)].data = StreamFailure
  /\ Positions(emitted, {"error"}) # {} => apc \in {"failed", "crashed"}

C2_Witness ==
  /\ apc = "failed"
  /\ TypesOf(emitted) = <<"sources", "response", "error">>

\* the stages of processYouTubeSearch, in the order of one pass
PassRank(pc) ==
  CASE pc = "idle" -> 0
    [] pc = "scheduled" -> 1
    [] pc = "detect" -> 2
    [] pc \in {"loop", "extracting"} -> 3
    [] pc = "creating" -> 4
    [] pc = "streaming" -> 5
    [] pc = "ended" -> 6
    [] OTHER -> 7

\* C3: every invocation is one pass (the stages never go back, the URLs are
\* taken in turn, the generator is invoked at most once) and eventually
\* emits a terminal event, which in the deferred variant the route's
\* listeners receive; a generator stream that completes leaves 'end' as the
\* last event.
C3_Terminates ==
  /\ (apc # "idle")
       ~> /\ Positions(emitted, Terminal) # {}
          /\ variant = "deferred" => Positions(delivered, Terminal) # {}
  /\ [][invocations' = invocations
          => /\ PassRank(apc') >= PassRank(apc)
             /\ urlIdx' >= urlIdx
             /\ llmCalls' <= 1]_vars
  /\ [](apc = "finished" /\ llmCalls > 0 => emitted[Len(emitted)].type = "end")

C3_Witness ==
  /\ apc = "finished"
  /\ llmCalls = 1
  /\ variant = "deferred"
  /\ delivered # <<>>
  /\ delivered[Len(delivered)].type = "end"

\* the messages in which detectYouTubeUrls finds nothing
UrlFree == {m \in 1..Len(Messages) : DetectedUrls[m] = <<>>}
UrlFreeMessages == {Messages[m] : m \in UrlFree}

\* C4: on a message without a YouTube URL the agent emits exactly a
\* 'response' with the prompt for a URL and then 'end'; the step that does so
\* leaves the cache, both limiter windows and the clock alone and starts no
\* extraction, no network call and no generator run.
C4_NoUrl ==
  /\ [](Over /\ message \in UrlFreeMessages
          => /\ TypesOf(emitted) = <<"response", "end">>
             /\ emitted[1].data = PromptForUrl
             /\ llmCalls = 0
             /\ transcriptResults = <<>>)
  /\ [][apc = "detect" /\ apc' # "detect" /\ message \in UrlFreeMessages
          => /\ Over'
             /\ TypesOf(emitted') = <<"response", "end">>
             /\ UNCHANGED <<sharedVars, extractVars, unitVars, llmCalls>>]_vars

C4_Witness ==
  /\ apc = "finished"
  /\ message = MsgHello
  /\ TypesOf(delivered) = <<"response", "end">>
  /\ delivered[1].data = PromptForUrl

\* every URL has been extracted and no result is free of error
AllFailed ==
  /\ Len(youtubeUrls) > 0
  /\ urlIdx > Len(youtubeUrls)
  /\ ErrorFree(transcriptResults) = <<>>

\* C5: when URLs were detected and every extraction result carries an
\* error, the agent emits exactly one 'response' with the could-not-extract
\* text and then 'end', no 'sources', no 'error', and the generator is never
\* invoked.
C5_AllFailed ==
  AllFailed
    => /\ llmCalls = 0
       /\ \/ apc = "loop" /\ emitted = <<>>
          \/ /\ apc = "finished"
             /\ TypesOf(emitted) = <<"response", "end">>
             /\ emitted[1].data = NoTranscripts

C5_Witness ==
  /\ AllFailed
  /\ Len(transcriptResults) = 2
  /\ apc = "finished"
  /\ TypesOf(emitted) = <<"response", "end">>

\* the result belongs to the url
ResultOf(url, result) ==
  IF VideoIds[url] = NoId
  THEN result.videoInfo.url = url /\ result.error # NoError
  ELSE result.videoInfo.videoId = VideoIds[url]

\* C6: a failed extraction does not stop the loop: after it every detected
\* URL has its result, in the order of the URLs; and the 'sources' event
\* has one entry per result free of error, none for a failed one, in the
\* same order.
C6_PartialFailure ==
  /\ PassRank(apc) > 3
       => /\ Len(transcriptResults) = Len(youtubeUrls)
          /\ \A k \in 1..Len(youtubeUrls) : ResultOf(youtubeUrls[k], transcriptResults[k])
  /\ \A i \in Positions(emitted, {"sources"}) :
       /\ Len(emitted[i].data) = Len(ErrorFree(transcriptResults))
       /\ \A k \in 1..Len(emitted[i].data) :
            /\ emitted[i].data[k].videoId = ErrorFree(transcriptResults)[k].videoInfo.videoId
            /\ emitted[i].data[k].url = ErrorFree(transcriptResults)[k].videoInfo.url
            /\ emitted[i].data[k].transcript = ErrorFree(transcriptResults)[k].transcript

C6_Witness ==
  /\ Positions(emitted, {"sources"}) = {1}
  /\ Len(emitted[1].data) = 1
  /\ Len(transcriptResults) = 2
  /\ transcriptResults[1].error # NoError

\* C7: in the deferred variant, used as the route uses it, nothing is
\* emitted before the route's listeners are attached: every event emitted
\* is delivered, and no emit of 'error' finds the emitter without listener.
C7_ListenersFirst ==
  variant = "deferred"
    => /\ emitted # <<>> => listeners
       /\ Len(delivered) = Len(emitted)
       /\ \A k \in 1..Len(emitted) : delivered[k] = emitted[k]
       /\ apc # "crashed"

C7_Witness ==
  /\ variant = "deferred"
  /\ apc = "failed"
  /\ TypesOf(delivered) = <<"error">>
  /\ Len(emitted) = 1

\* C8: extractYouTubeTranscript never rejects: a call that has settled has
\* returned a result, and the failure its catch block caught is the
\* result's error.
C8_NeverThrows ==
  /\ xpc # "threw"
  /\ xpc = "returned"
       => /\ xresult # Null
          /\ xerr # "" => xresult.error = xerr

C8_Witness ==
  /\ xpc = "returned"
  /\ xerr = "Failed to fetch video information"
  /\ xresult.error = xerr
  /\ xresult.videoInfo.title = "Unknown Video"

\* the texts of the segments with one space between neighbours
RECURSIVE SpaceJoined(_)
SpaceJoined(segments) ==
  IF segments = <<>> THEN ""
  ELSE IF Len(segments) = 1 THEN segments[1].text
  ELSE segments[1].text \o " " \o SpaceJoined(Tail(segments))

\* C9: a result with an error has no segment and the empty fullText; a
\* result without one has as fullText its segments' texts joined by single
\* spaces, and as metadata the record a metadata fetch produced for its
\* video.
C9_ResultShape ==
  xpc = "returned"
    => IF xresult.error # NoError
       THEN xresult.transcript = <<>> /\ xresult.fullText = ""
       ELSE /\ xresult.fullText = SpaceJoined(xresult.transcript)
            /\ \/ xresult.videoInfo = PrimaryInfo(xid)
               \/ xresult.videoInfo = FallbackInfo(xid, xresult.videoInfo.publishedAt)

C9_Witness ==
  /\ xpc = "returned"
  /\ xresult.error = NoError
  /\ Len(xresult.transcript) = 2
  /\ xresult.fullText = "hello big world"

\* C10: a call with a url from which no video id can be extracted returns
\* at once the result with error "Invalid YouTube URL", no segment, the
\* empty fullText and the placeholder metadata whose url is the input; it
\* leaves the cache and both limiter windows unchanged and starts no fetch.
\* Every such call does so, whatever the calls before it; only publishedAt,
\* the time of the call, tells two of these results apart.
C10_InvalidUrl ==
  [][xpc = "idle" /\ xpc' # "idle" /\ VideoIds[xurl'] = NoId
       => /\ xpc' = "returned"
          /\ xresult'.error = "Invalid YouTube URL"
          /\ xresult'.transcript = <<>>
          /\ xresult'.fullText = ""
          /\ [xresult'.videoInfo EXCEPT !.publishedAt = 0]
               = [videoId |-> <<>>, title |-> "", author |-> "", channelId |-> "",
                  duration |-> 0, thumbnail |-> "", url |-> xurl', publishedAt |-> 0,
                  viewCount |-> 0, description |-> "", tags |-> <<>>]
          /\ UNCHANGED <<cache, videoInfoRequests, transcriptRequests, now>>
          /\ netCalls' = NoCalls
          /\ info' = NoTask /\ tr' = NoTask /\ retry' = NoTask]_vars

C10_Witness ==
  /\ xpc = "returned"
  /\ xurl = CapitalUrl(IdA)
  /\ xresult.error = "Invalid YouTube URL"
  /\ xresult.videoInfo.url = xurl
  /\ cache # <<>>
  /\ calls = 2

\* the entries of a Map, whatever their order
EntrySet(map) == {map[k] : k \in 1..Len(map)}

\* the positions of the unexpired entries for videoId
Unexpired(map, videoId, t) ==
  {k \in 1..Len(map) : map[k].id = videoId /\ t <= map[k].expiresAt}

\* the step in which extractYouTubeTranscript is called
CallStep == xpc = "idle" /\ xpc' # "idle"

\* C11: a call for a video whose entry in the cache has not expired returns
\* at once the stored result, starts no metadata or transcript fetch (so no
\* network call) and leaves both limiter windows as they were; the cache
\* keeps its entries, only their order may change.
C11_CacheHit ==
  [][CallStep /\ Unexpired(cache, VideoIds[xurl'], now) # {}
       => /\ xpc' = "returned"
          /\ \A k \in Unexpired(cache, VideoIds[xurl'], now) : xresult' = cache[k].result
          /\ netCalls' = NoCalls
          /\ info' = NoTask /\ tr' = NoTask /\ retry' = NoTask
          /\ UNCHANGED <<videoInfoRequests, transcriptRequests, now>>
          /\ Len(cache') = Len(cache)
          /\ EntrySet(cache') = EntrySet(cache)]_vars

C11_Witness ==
  /\ xpc = "returned"
  /\ xurl = IdA
  /\ Len(returns) = 1
  /\ returns[1].url = ShortUrl(IdA)
  /\ xresult = returns[1].result
  /\ netCalls = NoCalls
  /\ Len(cache) = 1

\* C12: once a call for a url has returned a result without error, a later
\* call for the same url made before the TTL has elapsed (no entry is
\* evicted: there are fewer videos than the cache has room for) returns at
\* once a result equal to the first and starts no fetch; the first call
\* made one transcript fetch and one metadata fetch (one pass through its
\* tiers), so across the two calls each is performed once.
C12_RoundTrip ==
  /\ [][CallStep
          => \A k \in 1..Len(returns) :
               returns[k].url = xurl' /\ now <= returns[k].at + CacheTtlMs
                 => /\ xpc' = "returned"
                    /\ xresult' = returns[k].result
                    /\ netCalls' = NoCalls
                    /\ info' = NoTask /\ tr' = NoTask /\ retry' = NoTask]_vars
  /\ [][xpc = "fetching" /\ xpc' = "returned"
          => /\ netCalls'.transcript = 1
             /\ netCalls'.primary <= 1 /\ netCalls'.fallback <= 1
             /\ netCalls'.primary + netCalls'.fallback >= 1
             /\ retry' = NoTask]_vars

C12_Witness ==
  /\ xpc = "returned"
  /\ calls = 2
  /\ Len(returns) = 1
  /\ returns[1].url = xurl
  /\ xurl = ShortUrl(IdA)
  /\ Len(returns[1].result.transcript) = 2
  /\ xresult = returns[1].result
  /\ netCalls = NoCalls


(***************************************************************************)
(* A RateLimiter constructed on its own (rateLimiter.ts)                   *)
(***************************************************************************)

\* new RateLimiter({maxRequests: SmallMaxRequests, windowMs: SmallWindowMs})
SmallMaxRequests == 2
SmallWindowMs == 3

\* the clock of the instances constructed on their own advances by one
\* millisecond at a time up to UnitMaxTime; at most MaxRecorded calls of
\* recordRequest are followed
UnitMaxTime == 7
MaxRecorded == 4

restVars == <<apiKey, hasWindow, parked, cache, videoInfoRequests, transcriptRequests, netCalls,
              extractVars, agentVars>>

UnitInit ==
  /\ Init
  /\ apiKey = FALSE
  /\ videoInfoRequests = <<>>
  /\ transcriptRequests = <<>>

Returned(op, arg, value) ==
  [op |-> op, arg |-> arg, value |-> value, at |-> now, n |-> Len(recorded)]

\* Date.now() moves on
Advance ==
  /\ now < UnitMaxTime
  /\ now' = now + 1
  /\ UNCHANGED <<restVars, unitVars>>

\* rateLimiter.recordRequest()
RecordRequest ==
  /\ Len(recorded) < MaxRecorded
  /\ rlRequests' = recordRequest(rlRequests, SmallWindowMs, now)
  /\ recorded' = Append(recorded, now)
  /\ got' = Returned("recordRequest", Null, Null)
  /\ UNCHANGED <<now, restVars, waiters, entries, used>>

\* rateLimiter.canMakeRequest()
CanMakeRequest ==
  /\ rlRequests' = cleanup(rlRequests, SmallWindowMs, now)
  /\ got' = Returned("canMakeRequest", Null,
                     canMakeRequest(rlRequests, SmallMaxRequests, SmallWindowMs, now))
  /\ UNCHANGED <<now, restVars, recorded, waiters, entries, used>>

\* rateLimiter.getWaitTime()
GetWaitTime ==
  /\ rlRequests' = cleanup(rlRequests, SmallWindowMs, now)
  /\ got' = Returned("getWaitTime", Null,
                     getWaitTime(rlRequests, SmallMaxRequests, SmallWindowMs, now))
  /\ UNCHANGED <<now, restVars, recorded, waiters, entries, used>>

\* rateLimiter.getStatus()
GetStatus ==
  /\ rlRequests' = cleanup(rlRequests, SmallWindowMs, now)
  /\ got' = Returned("getStatus", Null,
                     [currentRequests |-> Len(cleanup(rlRequests, SmallWindowMs, now)),
                      maxRequests |-> SmallMaxRequests,
                      windowMs |-> SmallWindowMs,
                      waitTime |-> getWaitTime(rlRequests, SmallMaxRequests,
                                               SmallWindowMs, now)])
  /\ UNCHANGED <<now, restVars, recorded, waiters, entries, used>>

\* rateLimiter.reset()
Reset ==
  /\ rlRequests # <<>>
  /\ rlRequests' = <<>>
  /\ recorded' = <<>>
  /\ got' = Returned("reset", Null, Null)
  /\ UNCHANGED <<now, restVars, waiters, entries, used>>

LimiterNext ==
  \/ RecordRequest
  \/ CanMakeRequest
  \/ GetWaitTime
  \/ GetStatus
  \/ Reset
  \/ Advance

\* a RateLimiter under any sequence of calls of its methods and clock advances
LimiterSpec == UnitInit /\ [][LimiterNext]_vars

\* the recordRequest calls since construction or reset that lie inside the
\* last windowMs at time t
InWindow(t) == {k \in 1..Len(recorded) : recorded[k] > t - SmallWindowMs}

\* C13: canMakeRequest() returns true while fewer than maxRequests
\* recordRequest() calls lie inside the last windowMs, false once exactly
\* maxRequests lie inside it, and true again once windowMs has elapsed since
\* the calls with no further call.
C13_Window ==
  got.op = "canMakeRequest" /\ got.at = now
    => /\ Cardinality(InWindow(now)) < SmallMaxRequests => got.value = TRUE
       /\ Cardinality(InWindow(now)) = SmallMaxRequests => got.value = FALSE
       /\ (\A k \in 1..Len(recorded) : now >= recorded[k] + SmallWindowMs)
            => got.value = TRUE

C13_Witness ==
  /\ got.op = "canMakeRequest" /\ got.at = now /\ got.value = TRUE
  /\ Len(recorded) = SmallMaxRequests
  /\ now = recorded[Len(recorded)] + SmallWindowMs

\* the limiter was at capacity when the last call was made: the calls inside
\* the window were not fewer than maxRequests
AtCapacity == Cardinality(InWindow(got.at)) >= SmallMaxRequests

\* the oldest call time still inside the window when the last call was made
OldestRemaining ==
  CHOOSE ts \in {recorded[k] : k \in InWindow(got.at)} :
    \A k \in InWindow(got.at) : ts <= recorded[k]

\* C14: in every reachable state getWaitTime() is >= 0, is 0 whenever
\* canMakeRequest() is true, and at capacity equals (oldest remaining
\* timestamp + windowMs) - now, so that canMakeRequest() is true once that
\* long has been waited with no further call.
C14_WaitTime ==
  got.op = "getWaitTime" /\ got.n = Len(recorded)
    => /\ got.value >= 0
       /\ got.at = now
            /\ canMakeRequest(rlRequests, SmallMaxRequests, SmallWindowMs, now)
            => got.value = 0
       /\ got.at = now /\ AtCapacity
            => got.value = (OldestRemaining + SmallWindowMs) - now
       /\ AtCapacity /\ now = got.at + got.value
            => canMakeRequest(rlRequests, SmallMaxRequests, SmallWindowMs, now)


(***************************************************************************)
(* A TranscriptCache constructed on its own (transcriptCache.ts)           *)
(***************************************************************************)

\* new TranscriptCache(SmallMaxSize, ttlHours) with a ttl of SmallTtlMs
SmallMaxSize == 3
SmallTtlMs == 2

\* the video ids and the results the cache is called with: for each id a
\* result without error and one with an error, for the first id a second
\* result without error as well
UnitIds == {"idA", "idB", "idC", "idD"}
UnitResults(videoId) ==
  {[videoId |-> videoId, fullText |-> "first", error |-> NoError],
   [videoId |-> videoId, fullText |-> "", error |-> "Transcript is disabled for this video"]}
  \cup (IF videoId = "idA"
        THEN {[videoId |-> videoId, fullText |-> "second", error |-> NoError]}
        ELSE {})

\* the recency order after a use of videoId
Touch(order, videoId) ==
  Append(SelectSeq(order, LAMBDA x : x # videoId), videoId)

\* the recency order of the ids the Map still holds
Present(order, map) ==
  SelectSeq(order, LAMBDA x : KeyIndex(map, x) # 0)

\* cache.set(videoId, result)
Set(videoId, result) ==
  /\ entries' = CacheSet(entries, SmallMaxSize, SmallTtlMs, videoId, result, now)
  /\ got' = Returned("set", [id |-> videoId, result |-> result], Null)
  /\ used' = IF result.error # NoError THEN used
             ELSE Present(Touch(used, videoId), entries')
  /\ UNCHANGED <<now, restVars, rlRequests, recorded, waiters>>

\* cache.get(videoId)
Get(videoId) ==
  /\ entries' = CacheGetMap(entries, videoId, now)
  /\ got' = Returned("get", [id |-> videoId], CacheGetResult(entries, videoId, now))
  /\ used' = IF CacheGetResult(entries, videoId, now) # Null
             THEN Touch(used, videoId)
             ELSE Present(used, entries')
  /\ UNCHANGED <<now, restVars, rlRequests, recorded, waiters>>

\* cache.clearExpired()
ClearExpired ==
  /\ entries' = CacheClearExpired(entries, now)
  /\ got' = Returned("clearExpired", Null, Null)
  /\ used' = Present(used, entries')
  /\ UNCHANGED <<now, restVars, rlRequests, recorded, waiters>>

\* cache.getStats()
GetStats ==
  /\ got' = Returned("getStats", Null, CacheGetStats(entries, SmallMaxSize))
  /\ UNCHANGED <<now, restVars, rlRequests, recorded, waiters, entries, used>>

\* cache.clear()
Clear ==
  /\ entries # <<>>
  /\ entries' = <<>>
  /\ used' = <<>>
  /\ got' = Returned("clear", Null, Null)
  /\ UNCHANGED <<now, restVars, rlRequests, recorded, waiters>>

CacheNext ==
  \/ \E videoId \in UnitIds : \E result \in UnitResults(videoId) : Set(videoId, result)
  \/ \E videoId \in UnitIds : Get(videoId)
  \/ ClearExpired
  \/ GetStats
  \/ Clear
  \/ Advance /\ now <= SmallTtlMs

\* a TranscriptCache under any sequence of calls of its methods and clock
\* advances
CacheSpec == UnitInit /\ [][CacheNext]_vars

\* C15: set(id, r) with an error-free r followed by get(id) returns r; set
\* with r.error set leaves the cache unchanged; no stored entry ever carries
\* an error.
C15_SetGet ==
  /\ [](\A k \in 1..Len(entries) : entries[k].result.error = NoError)
  /\ [][got.op = "set" /\ got'.op = "get"
          /\ got.arg.result.error = NoError
          /\ got'.arg.id = got.arg.id
          /\ now <= got.at + SmallTtlMs
          => got'.value = got.arg.result]_vars
  /\ [][got'.op = "set" /\ got' # got /\ got'.arg.result.error # NoError
          => entries' = entries]_vars

C15_Witness ==
  /\ got.op = "get" /\ got.value # Null
  /\ Len(entries) = 2
  /\ got.arg.id = entries[2].id
  /\ got.value = entries[2].result
  /\ got.value.fullText = "second"
  /\ entries[2].timestamp = now

EntryIds(map) == {map[k].id : k \in 1..Len(map)}

\* the step is a set of a result without error for an id the Map does not
\* hold, made when the Map is at capacity
SetOfNewIdAtCapacity ==
  /\ got'.op = "set" /\ got' # got
  /\ got'.arg.result.error = NoError
  /\ KeyIndex(entries, got'.arg.id) = 0
  /\ Len(entries) = SmallMaxSize

\* C16: at capacity a set of a new id evicts exactly one entry, the least
\* recently used one, where both a set and a successful get count as use (so
\* that capacity + 1 distinct inserts evict the first-inserted entry unless a
\* get touched it in between).
C16_Lru ==
  [][SetOfNewIdAtCapacity
       => /\ Len(entries') = SmallMaxSize
          /\ EntryIds(entries') = (EntryIds(entries) \ {used[1]}) \cup {got'.arg.id}
          /\ \A k \in 1..Len(entries) :
               entries[k].id # used[1] => entries[k] \in EntrySet(entries')]_vars

\* the entry's expiry time has passed at time t
Expired(entry, t) == t > entry.expiresAt

\* C17: an expired entry is never returned by get: it is deleted and null is
\* returned; right after clearExpired() no expired entry remains and
\* getStats().size is the number of unexpired entries; clearExpired() removes
\* no unexpired entry.
C17_Expiry ==
  /\ [][got'.op = "get" /\ got' # got
          => \A k \in 1..Len(entries) :
               entries[k].id = got'.arg.id /\ Expired(entries[k], now)
                 => /\ got'.value = Null
                    /\ got'.arg.id \notin EntryIds(entries')]_vars
  /\ [](got.op = "clearExpired" /\ got.at = now
          => \A k \in 1..Len(entries) : ~Expired(entries[k], now))
  /\ [][got.op = "clearExpired" /\ got.at = now /\ got'.op = "getStats"
          => got'.value.size
               = Cardinality({k \in 1..Len(entries) : ~Expired(entries[k], now)})]_vars
  /\ [][got'.op = "clearExpired" /\ got' # got
          => entries' = SelectSeq(entries, LAMBDA e : ~Expired(e, now))]_vars

C17_Witness ==
  /\ got.op = "clearExpired" /\ got.at = now
  /\ now = SmallTtlMs + 1
  /\ Len(entries) = 1
  /\ entries[1].expiresAt = now
  /\ Len(used) = 1


(***************************************************************************)
(* extractYouTubeVideoId and detectYouTubeUrls on their own                *)
(***************************************************************************)

\* 11-character tokens: each head followed by each tail
TokenHeads ==
  { <<"a","A","1","-","_","b">>, <<"v","=","x","y","z","0">>,
    <<"y","o","u","t","u",".">>, <<"e","m","b","e","d",".">> }
TokenTails ==
  { <<"c","d","e","f","g">>, <<"b","e","=","v","=">>,
    <<"-","_","9","Z","z">>, <<".","c","o","m","!">> }
Tokens == {h \o t : h \in TokenHeads, t \in TokenTails}

LitWatchLater == <<"w","a","t","c","h","?","f","e","a","t","u","r","e","=",
                   "s","h","a","r","e","&">>
LitTime == <<"t","=","1","0","s">>

\* the texts of one recognized shape carrying the token T: urls are the
\* recognized URLs the text holds, ids the tokens it carries
Carrying(T) ==
  { [text |-> WatchUrl(T), urls |-> <<WatchUrl(T)>>, ids |-> <<T>>],
    [text |-> WatchUrl(T) \o <<"&">> \o LitTime, urls |-> <<WatchUrl(T)>>, ids |-> <<T>>],
    [text |-> LitYoutubeCom \o LitWatchQ \o LitVEq \o T,
     urls |-> <<LitYoutubeCom \o LitWatchQ \o LitVEq \o T>>, ids |-> <<T>>],
    [text |-> LitHttps \o LitWww \o LitYoutubeCom \o LitWatchLater \o LitVEq \o T,
     urls |-> <<LitHttps \o LitWww \o LitYoutubeCom \o LitWatchLater \o LitVEq \o T>>,
     ids |-> <<T>>],
    [text |-> ShortUrl(T), urls |-> <<ShortUrl(T)>>, ids |-> <<T>>],
    [text |-> ShortUrl(T) \o <<"?">> \o LitTime, urls |-> <<ShortUrl(T)>>, ids |-> <<T>>],
    [text |-> EmbedUrl(T), urls |-> <<EmbedUrl(T)>>, ids |-> <<T>>],
    [text |-> LitHttps \o EmbedUrl(T), urls |-> <<LitHttps \o EmbedUrl(T)>>, ids |-> <<T>>],
    [text |-> T, urls |-> <<>>, ids |-> <<T>>] }

\* texts no pattern of extractYouTubeVideoId matches
Unmatched ==
  { [text |-> t, urls |-> <<>>, ids |-> <<>>] :
      t \in { MsgHello,
              <<>>,
              SubSeq(IdA, 1, VideoIdLen - 1),
              IdA \o <<"h">>,
              ShortUrl(SubSeq(IdA, 1, VideoIdLen - 1)),
              <<"v","i","m","e","o",".","c","o","m","/">> \o IdA } }
    \cup {[text |-> CapitalUrl(IdA), urls |-> <<CapitalUrl(IdA)>>, ids |-> <<>>]}

\* the recognized URLs of the three shapes for the token T
Recognized(T) == {WatchUrl(T), ShortUrl(T), LitHttps \o EmbedUrl(T)}

\* what stands between two URLs of a message: on one line or on two
Separators == { <<" ">>, <<" ","a","n","d"," ">>, <<"\n">> }

\* messages holding two distinct recognized URLs, and the same with the
\* first URL once more at the end
TwoUrls ==
  { [text |-> u1 \o sep \o u2, urls |-> <<u1, u2>>, ids |-> <<IdA, IdB>>] :
      u1 \in Recognized(IdA), u2 \in Recognized(IdB), sep \in Separators }
    \cup
  { [text |-> u1 \o sep \o u2 \o sep \o u1, urls |-> <<u1, u2>>, ids |-> <<IdA, IdB>>] :
      u1 \in Recognized(IdA), u2 \in Recognized(IdB), sep \in Separators }

UrlInputs == UNION {Carrying(T) : T \in Tokens} \cup Unmatched \cup TwoUrls

\* a caller has a text in hand
Given(input) ==
  /\ got.op = "none"
  /\ got' = Returned("given", input, Null)
  /\ UNCHANGED <<now, restVars, rlRequests, recorded, waiters, entries, used>>

\* extractYouTubeVideoId(text)
ExtractVideoId ==
  /\ got.op = "given"
  /\ got' = Returned("extractYouTubeVideoId", got.arg, extractYouTubeVideoId(got.arg.text))
  /\ UNCHANGED <<now, restVars, rlRequests, recorded, waiters, entries, used>>

\* detectYouTubeUrls(text), and extractYouTubeVideoId on each url found, as
\* the agent's loop has extractYouTubeTranscript do
DetectUrls ==
  /\ got.op = "given"
  /\ LET found == detectYouTubeUrls(got.arg.text)
     IN  got' = Returned("detectYouTubeUrls", got.arg,
                         [urls |-> found,
                          ids |-> [k \in 1..Len(found) |-> extractYouTubeVideoId(found[k])]])
  /\ UNCHANGED <<now, restVars, rlRequests, recorded, waiters, entries, used>>

UrlNext ==
  \/ \E input \in UrlInputs : Given(input)
  \/ ExtractVideoId
  \/ DetectUrls

\* the two functions applied to texts of the recognized shapes and others
UrlSpec == UnitInit /\ [][UrlNext]_vars

\* C18: for every 11-character token T, extractYouTubeVideoId returns T for
\* the watch URL with v=, the youtu.be URL, the embed path and the bare token
\* carrying T, and null when no pattern matches.
C18_VideoId ==
  got.op = "extractYouTubeVideoId" /\ Len(got.arg.ids) <= 1
    => got.value = (IF got.arg.ids = <<>> THEN NoId ELSE got.arg.ids[1])

C18_Witness ==
  /\ got.op = "extractYouTubeVideoId"
  /\ got.arg.text = EmbedUrl(got.value)
  /\ got.value = <<"y","o","u","t","u",".",".","c","o","m","!">>

\* C19: for a message holding k >= 2 distinct recognized URLs (any mix of the
\* watch, youtu.be and embed shapes, on one line or several),
\* detectYouTubeUrls returns exactly those k substrings, without duplicates
\* and in first-seen order, each resolving through extractYouTubeVideoId to
\* its own id (so that the agent makes one extraction for each).
C19_DetectAll ==
  got.op = "detectYouTubeUrls" /\ Len(got.arg.urls) >= 2
    => /\ got.value.urls = got.arg.urls
       /\ got.value.ids = got.arg.ids


(***************************************************************************)
(* waitForRateLimit called by several callers on one RateLimiter           *)
(***************************************************************************)

\* waitForRateLimit(rateLimiter) up to its await: getWaitTime, then either
\* the timer is set or the request is recorded at once
WaitStart(c) ==
  /\ waiters[c].pc = "idle"
  /\ Len(recorded) < MaxRecorded
  /\ LET waitTime == getWaitTime(rlRequests, SmallMaxRequests, SmallWindowMs, now)
     IN  IF waitTime > 0
         THEN /\ waiters' = [waiters EXCEPT ![c] = [pc |-> "waiting", wakeAt |-> now + waitTime]]
              /\ rlRequests' = cleanup(rlRequests, SmallWindowMs, now)
              /\ UNCHANGED recorded
         ELSE /\ rlRequests' = recordRequest(rlRequests, SmallWindowMs, now)
              /\ recorded' = Append(recorded, now)
              /\ UNCHANGED waiters
  /\ UNCHANGED <<now, restVars, entries, got, used>>

\* the timer has fired: the caller resumes and records its request
WaitWake(c) ==
  /\ waiters[c].pc = "waiting"
  /\ now >= waiters[c].wakeAt
  /\ waiters' = [waiters EXCEPT ![c] = NotWaiting]
  /\ rlRequests' = recordRequest(rlRequests, SmallWindowMs, now)
  /\ recorded' = Append(recorded, now)
  /\ UNCHANGED <<now, restVars, entries, got, used>>

WaitNext ==
  \/ \E c \in Callers : WaitStart(c)
  \/ \E c \in Callers : WaitWake(c)
  \/ Advance

\* a RateLimiter whose requests all pass through waitForRateLimit
WaitSpec == UnitInit /\ [][WaitNext]_vars

\* C20: under every interleaving of callers of waitForRateLimit on one
\* limiter, callers suspended at capacity included, no sliding window of
\* windowMs ever holds more than maxRequests recorded requests.
C20_Quota ==
  \A t \in 0..now :
    Cardinality({k \in 1..Len(recorded) :
                   recorded[k] > t - SmallWindowMs /\ recorded[k] <= t})
      <= SmallMaxRequests


(***************************************************************************)
(* Further properties of the TranscriptCache                               *)
(***************************************************************************)

\* C25: after any sequence of get, set, clearExpired and clear, with any
\* results, ids and clock advances, the number of stored entries never
\* exceeds maxSize.
C25_Bounded == Len(entries) <= SmallMaxSize

C25_Witness ==
  /\ got.op = "set" /\ got.at = now
  /\ Len(entries) = SmallMaxSize
  /\ entries[SmallMaxSize].id = got.arg.id
  /\ entries[SmallMaxSize].timestamp = now
  /\ entries[1].timestamp < now
  /\ now > SmallTtlMs

\* the step is a set of a result without error for an id the Map holds
SetOfPresentId ==
  /\ got'.op = "set" /\ got' # got
  /\ got'.arg.result.error = NoError
  /\ KeyIndex(entries, got'.arg.id) # 0

\* C28: set(id, r) with an error-free r for an id that is already present
\* replaces only that id's entry (new result, new creation and expiry
\* timestamps): no other id's entry is removed and the size is unchanged,
\* also when the cache is at capacity.
C28_Replace ==
  [][SetOfPresentId
       => /\ Len(entries') = Len(entries)
          /\ EntryIds(entries') = EntryIds(entries)
          /\ \A k \in 1..Len(entries) :
               entries[k].id # got'.arg.id => entries[k] \in EntrySet(entries')
          /\ [id |-> got'.arg.id, result |-> got'.arg.result, timestamp |-> now,
              expiresAt |-> now + SmallTtlMs] \in EntrySet(entries')]_vars

\* C29: get(id) on an unexpired entry changes only the recency order: the
\* entries, with their creation and expiry times, and the set of ids stay as
\* they were; only a set creates or changes an entry, whose lifetime is the
\* ttl from that set, so that a get returns an entry no later than the ttl
\* after the set that stored it, however often it was read.
C29_ReadOnly ==
  /\ [][got'.op = "get" /\ got' # got /\ got'.value # Null
          => /\ Len(entries') = Len(entries)
             /\ EntrySet(entries') = EntrySet(entries)
             /\ \E k \in 1..Len(entries) :
                  /\ entries[k].id = got'.arg.id
                  /\ entries[k].result = got'.value
                  /\ now <= entries[k].timestamp + SmallTtlMs
                  /\ entries'[Len(entries')] = entries[k]]_vars
  /\ [][got'.op # "set" => EntrySet(entries') \subseteq EntrySet(entries)]_vars
  /\ [](\A k \in 1..Len(entries) :
          entries[k].expiresAt = entries[k].timestamp + SmallTtlMs)

C29_Witness ==
  /\ got.op = "get" /\ got.value # Null /\ got.at = now
  /\ Len(entries) = 2
  /\ entries[2].id = got.arg.id
  /\ entries[2].timestamp < entries[1].timestamp
  /\ entries[2].expiresAt = now


(***************************************************************************)
(* The configuration of the two limiter instances                          *)
(***************************************************************************)

\* C26 as claimed: the metadata limiter has a higher request ceiling and a
\* shorter window than the transcript limiter, so that a request recorded
\* now leaves the metadata window first.
C26_ShorterWindow ==
  /\ VideoInfoMaxRequests > TranscriptMaxRequests
  /\ now + VideoInfoWindowMs < now + TranscriptWindowMs

\* C26: the metadata limiter has a higher request ceiling and a longer
\* window than the transcript limiter, so that a request recorded now leaves
\* the transcript window first.
C26_LongerWindow ==
  /\ VideoInfoMaxRequests > TranscriptMaxRequests
  /\ now + VideoInfoWindowMs > now + TranscriptWindowMs

\* both limiters are at capacity with requests of the same age, and the
\* metadata fetch waits for the longer time
C26_Witness ==
  /\ info.pc = "wait" /\ tr.pc = "wait"
  /\ info.wakeAt = VideoInfoWindowMs
  /\ tr.wakeAt = TranscriptWindowMs
  /\ info.wakeAt > tr.wakeAt


(***************************************************************************)
(* The context of the response chain                                       *)
(***************************************************************************)

\* streamEvents has been called in this invocation: the chain has its context
ContextPassed == llmCalls >= 1

\* C21: the context passed to the text generator is never empty for a
\* successfully fetched video: for each error-free result it holds the
\* result's fullText or, when fullText is empty (no transcript segment), the
\* structured block built from the video's metadata.
C21_Context ==
  ContextPassed
    => /\ ContextOf(documents) # ""
       /\ Len(documents) = Len(ErrorFree(transcriptResults))
       /\ \A k \in 1..Len(documents) :
            LET r == ErrorFree(transcriptResults)[k]
            IN  documents[k].pageContent =
                  (IF r.fullText # "" THEN r.fullText ELSE MetadataBlock(r.videoInfo))


(***************************************************************************)
(* The periodic clearExpired of transcriptCache.ts                         *)
(***************************************************************************)

\* setInterval(..., 60 * 60 * 1000)
ClearIntervalMs == 60 * 60 * 1000

\* the callback of the setInterval at the end of transcriptCache.ts, which is
\* set only in a process that has a window
IntervalTick ==
  /\ hasWindow
  /\ now >= ClearIntervalMs
  /\ cache' = CacheClearExpired(cache, now)
  /\ UNCHANGED <<now, apiKey, hasWindow, parked, videoInfoRequests, transcriptRequests, netCalls,
                 extractVars, unitVars, agentVars>>

\* a process with or without a window loads the modules
HostInit ==
  /\ Loaded
  /\ hasWindow \in BOOLEAN

HostNext ==
  \/ ExtractNext
  \/ IntervalTick

\* the cache singleton in its process: timers that are set fire, and time
\* passes
HostSpec ==
  /\ HostInit
  /\ [][HostNext]_vars
  /\ WF_vars(IntervalTick)
  /\ WF_vars(Tick)

HasExpired == \E k \in 1..Len(cache) : Expired(cache[k], now)

\* C22: in the server process clearExpired runs on a periodic tick, so that
\* every entry whose expiry has passed is eventually deleted even if no get
\* or set touches the cache again.
C22_Background == (~hasWindow /\ HasExpired) ~> ~HasExpired


(***************************************************************************)
(* fetchVideoInfoWithAPI within extractYouTubeTranscript                   *)
(***************************************************************************)

InfoTaskNext(w) == IF w = "first" THEN info' ELSE retry'

\* the metadata fetch w gets its slot and makes its first network call
GetsSlot(w) ==
  /\ InfoTask(w).pc \in {"none", "wait"}
  /\ InfoTaskNext(w).pc \in {"primary", "fallback"}

\* the metadata network calls counted in the running extraction
MetadataCalls(n) == n.primary + n.fallback

\* C23: a metadata fetch takes exactly one slot from the metadata limiter,
\* before its first network call; it calls the fallback endpoint exactly when
\* no key is configured or the primary call fails; it returns null only when
\* the fallback call was made and failed, and otherwise a record: the full
\* one from the primary call, the degraded one from the fallback call.
C23_TwoTier ==
  /\ [][\A w \in Which :
          GetsSlot(w)
            => /\ videoInfoRequests'
                    = Append(cleanup(videoInfoRequests, VideoInfoWindowMs, now'), now')
               /\ MetadataCalls(netCalls')
                    = (IF xpc = "idle" THEN 0 ELSE MetadataCalls(netCalls)) + 1
               /\ InfoTaskNext(w).pc = "fallback" <=> ~apiKey]_vars
  /\ [][(\A w \in Which : ~GetsSlot(w)) /\ BagCardinality(dangling') >= BagCardinality(dangling)
          => videoInfoRequests' = videoInfoRequests]_vars
  /\ [][xpc # "idle" /\ MetadataCalls(netCalls') > MetadataCalls(netCalls)
          => \E w \in Which :
               \/ GetsSlot(w)
               \/ /\ InfoTask(w).pc = "primary" /\ InfoTaskNext(w).pc = "fallback"
                  /\ netCalls'.fallback = netCalls.fallback + 1]_vars
  /\ [][\A w \in Which :
          InfoTask(w).pc # "fallback" /\ InfoTaskNext(w).pc = "fallback"
            => \/ GetsSlot(w) /\ ~apiKey
               \/ InfoTask(w).pc = "primary"]_vars
  /\ [][xpc = "retry" /\ xpc' = "returned"
          => /\ retry.pc \in {"primary", "fallback"}
             /\ retry.pc = "primary" => xresult'.videoInfo = PrimaryInfo(xid)
             /\ retry.pc = "fallback"
                  => xresult'.videoInfo \in {FallbackInfo(xid, now), UnknownInfo(xid, now)}]_vars
  /\ [][xpc = "fetching" /\ xpc' = "returned"
          => \/ xresult'.videoInfo = PrimaryInfo(xid)
             \/ \E t \in {0, now} : xresult'.videoInfo = FallbackInfo(xid, t)]_vars
  /\ [][xpc = "fetching" /\ xpc' = "retry" /\ xerr' = "Failed to fetch video information"
          => \/ info.pc = "fallback"
             \/ info = FallbackFailed /\ netCalls.fallback = 1]_vars
  /\ [](\A w \in Which :
          InfoTask(w).pc = "done" /\ InfoTask(w).res = Null => netCalls.fallback >= 1)

\* the second metadata fetch, made with a key, has called the Data API and,
\* when that failed, the fallback endpoint, which has failed too
C23_Witness ==
  /\ apiKey
  /\ xpc = "returned"
  /\ xerr = "Failed to fetch video information"
  /\ xresult.videoInfo = UnknownInfo(xid, now)
  /\ netCalls.primary = 2 /\ netCalls.fallback = 2
  /\ Len(videoInfoRequests) = 2


(***************************************************************************)
(* The catch block of extractYouTubeTranscript                             *)
(***************************************************************************)

\* the messages fetchTranscript throws
TranscriptErrors ==
  { "Transcript is disabled for this video",
    "No transcript available for this video",
    "Failed to fetch transcript" }

EntersCatch == xpc = "fetching" /\ xpc' = "retry"
ReturnsFromCatch == xpc = "retry" /\ xpc' = "returned"

\* C24: when the transcript fetch throws or the first metadata fetch yields
\* null, extractYouTubeTranscript makes exactly one further metadata fetch,
\* which waits for and is recorded on the metadata limiter; the result has
\* as error the thrown message (the transcript fetch's when it threw, else
\* the one for missing metadata), as metadata the second fetch's record or
\* the placeholder with the video's id, and the cache gets no entry for the
\* id.
C24_ErrorPath ==
  /\ [][EntersCatch
          => /\ \/ tr.pc = "call" /\ xerr' \in TranscriptErrors
                \/ /\ xerr' = "Failed to fetch video information"
                   /\ info.pc = "fallback" \/ info = FallbackFailed
                   /\ tr.pc \in {"call", "done"}
             /\ retry = NoTask
             /\ retry'.pc \in {"wait", "primary", "fallback"}
             /\ retry'.pc = "wait"
                  <=> ~canMakeRequest(videoInfoRequests, VideoInfoMaxRequests,
                                      VideoInfoWindowMs, now')]_vars
  /\ [][retry.pc = "none" /\ retry'.pc # "none" => EntersCatch]_vars
  /\ [][retry.pc \in {"none", "wait"} /\ retry'.pc \in {"primary", "fallback"}
          => /\ videoInfoRequests' # <<>>
             /\ videoInfoRequests'[Len(videoInfoRequests')] = now'
             /\ Len(videoInfoRequests') <= VideoInfoMaxRequests]_vars
  /\ [][retry.pc # "none" /\ retry'.pc = "none" => ReturnsFromCatch]_vars
  /\ [][ReturnsFromCatch
          => /\ xresult'.error = xerr
             /\ xerr \in TranscriptErrors \cup {"Failed to fetch video information"}
             /\ xresult'.videoInfo
                  \in {PrimaryInfo(xid), FallbackInfo(xid, now), UnknownInfo(xid, now)}
             /\ xresult'.videoInfo.videoId = xid
             /\ xresult'.transcript = <<>>
             /\ KeyIndex(cache', xid) = 0]_vars
  /\ [](xpc = "retry"
          => /\ retry.pc \in {"wait", "primary", "fallback"}
             /\ KeyIndex(cache, xid) = 0)

\* the transcript fetch has thrown for a video without captions and the
\* second metadata fetch has brought the full record
C24_Witness ==
  /\ xpc = "returned"
  /\ xerr = "No transcript available for this video"
  /\ xresult.error = xerr
  /\ xresult.videoInfo = PrimaryInfo(xid)
  /\ KeyIndex(cache, xid) = 0
  /\ netCalls.primary = 2


(***************************************************************************)
(* The agent of youtubeTranscriptAgent.ts under the chat route             *)
(***************************************************************************)

\* C27: in the variant whose searchAndAnswer runs the orchestration before
\* it returns the emitter, nothing is emitted before the route's listeners
\* are attached: every event emitted is delivered to them, and no emit of
\* 'error' finds the emitter without listener.
C27_InlineDelivered ==
  variant = "inline"
    => /\ emitted # <<>> => listeners
       /\ delivered = emitted
       /\ apc # "crashed"


(***************************************************************************)
(* Overlapping calls of extractYouTubeTranscript                           *)
(***************************************************************************)

\* The event loop turns from a call of extractYouTubeTranscript that is
\* suspended at an await (or from no call) to the other one: a caller that
\* did not wait for the first call's result, such as a second chat request.
Switch ==
  /\ rpc = "idle"
  /\ xpc \in {"idle", "fetching", "retry"}
  /\ xpc # "idle" \/ parked.xpc # "idle"
  /\ parked' = [xpc |-> xpc, xurl |-> xurl, xid |-> xid, info |-> info, tr |-> tr,
                retry |-> retry, xerr |-> xerr, xresult |-> xresult,
                netCalls |-> netCalls]
  /\ xpc' = parked.xpc
  /\ xurl' = parked.xurl
  /\ xid' = parked.xid
  /\ info' = parked.info
  /\ tr' = parked.tr
  /\ retry' = parked.retry
  /\ xerr' = parked.xerr
  /\ xresult' = parked.xresult
  /\ netCalls' = parked.netCalls
  /\ UNCHANGED <<now, apiKey, hasWindow, cache, videoInfoRequests, transcriptRequests,
                 dangling, calls, returns, unitVars, agentVars>>

PairNext ==
  \/ ExtractNext
  \/ Switch

\* extractYouTubeTranscript under callers whose calls may overlap
PairSpec == Init /\ [][PairNext]_vars

\* C30: of two overlapping extractYouTubeTranscript calls for one video id
\* that start with no cached entry for it, at most one performs the
\* transcript network fetch and at most one slot is taken from the
\* transcript limiter; the other call is served from the cache.
C30_SingleFetch ==
  xid # NoId /\ parked.xid = xid
    => /\ netCalls.transcript + parked.netCalls.transcript <= 1
       /\ now < TranscriptWindowMs /\ Len(transcriptRequests) < TranscriptMaxRequests
            => Len(transcriptRequests) <= 1

====
